---- MODULE Spec2Model ----
(***************************************************************************)
(* Model of the Track Studio audio analyzer (src/pkg/audio/analyzer.py).   *)
(*                                                                         *)
(* Numbers.  The analyzer works on floats; the model keeps exact integers: *)
(*   - tempo, spectral_centroid, spectral_rolloff, spectral_bandwidth are  *)
(*     integers in their own unit (BPM, Hz): every threshold of the code   *)
(*     is an integer, so t-1, t, t+1 around each threshold t stand for     *)
(*     every float the comparisons can tell apart;                         *)
(*   - zero_crossing_rate is in thousandths (0.1 is 100, 0.08 is 80);      *)
(*   - a time is a sample count: the value t stands for t / sr seconds, so *)
(*     "x > 0.5 s" is 2 * x > sr;                                          *)
(*   - a correlation is an integer rank (only its order is used).          *)
(* Lists are sequences; a 0-based Python index k is position k + 1.        *)
(***************************************************************************)
EXTENDS Integers, Sequences, FiniteSets, TLC

VARIABLES
    pc,                  \* control location of the function being run
    tempo,               \* estimate_genre / analyze_audio: tempo (BPM)
    spectral_centroid,   \* mean spectral centroid (Hz)
    zero_crossing_rate,  \* mean zero-crossing rate (thousandths)
    spectral_rolloff,    \* estimate_genre local (Hz)
    spectral_bandwidth,  \* estimate_genre local (Hz)
    genre,               \* value returned by estimate_genre
    major_correlations,  \* estimate_key local, 12 entries
    minor_correlations,  \* estimate_key local, 12 entries
    key,                 \* value returned by estimate_key
    rms,                 \* detect_vocal_segments: frame RMS values
    sr,                  \* sample rate (Hz)
    i,                   \* detect_vocal_segments: frames consumed by the loop
    segments,            \* detect_vocal_segments local
    in_segment,          \* detect_vocal_segments local
    start_time,          \* detect_vocal_segments local
    duration,            \* analyze_audio local
    beat_times,          \* analyze_audio local
    vocal_segments,      \* analyze_audio local
    result,              \* record returned by analyze_audio
    argv,                \* sys.argv of the process
    printed,             \* what the process has written to stdout
    exit_status,         \* status passed to sys.exit
    run,                 \* which call of analyze_audio on the file is running
    first,               \* what the first call on the file was given and returned
    call,                \* which of two interleaved calls is running
    other,               \* the locals of the call that is not running
    image,               \* text_detector: the image file at image_path
    confidence,          \* text_detector: the confidence threshold
    force_cpu,           \* generate_word_timestamps parameter
    model_name,          \* generate_word_timestamps parameter
    cuda,                \* torch.cuda.is_available()
    faster_model,        \* generate_word_timestamps local
    returned,            \* what try_whisperx returned
    attempted,           \* the transcription methods started, in order
    writers,             \* the methods that opened output_json for writing
    output_json,         \* the content of the file at output_json
    timestamps_json,     \* create_karaoke_ass: the content of timestamps_json
    lyrics_text,         \* create_karaoke_ass parameter, one per run
    config,              \* create_karaoke_ass parameter
    events,              \* create_karaoke_ass local, one per run
    created,             \* the runs of create_karaoke_ass that have finished
    in_words,            \* split_text_intelligently: the argument words_data
    in_max_chars,        \* split_text_intelligently: the argument max_chars
    out_lines,           \* split_text_intelligently: the list returned
    jobs,                \* whisperx_api: the job table, by job number
    handler,             \* whisperx_api: the request handler on the event loop
    tasks,               \* whisperx_api: the background tasks, in order of start
    issued,              \* whisperx_api: the job ids answered to POST /transcribe
    reply,               \* whisperx_api: the last HTTP response sent
    db,                  \* update_audio_analysis: the songs table, by id
    songs,               \* update_audio_analysis: the rows fetched
    song_i,              \* update_audio_analysis: rows the loop has finished
    analysis,            \* update_audio_analysis: main's local
    success_count,       \* update_audio_analysis: main's local
    fail_count           \* update_audio_analysis: main's local

genreVars == <<tempo, spectral_centroid, zero_crossing_rate, spectral_rolloff,
               spectral_bandwidth, genre>>
keyVars == <<major_correlations, minor_correlations, key>>
segVars == <<rms, sr, i, segments, in_segment, start_time>>
anVars == <<duration, beat_times, vocal_segments, result>>
procVars == <<argv, printed, exit_status>>
twiceVars == <<run, first>>
pairVars == <<call, other>>
textVars == <<image, confidence>>
stampVars == <<force_cpu, model_name, cuda, faster_model, returned, attempted,
               writers, output_json>>
karaokeVars == <<timestamps_json, lyrics_text, config, events, created>>
splitVars == <<in_words, in_max_chars, out_lines>>
apiVars == <<jobs, handler, tasks, issued, reply>>
updateVars == <<db, songs, song_i, analysis, success_count, fail_count>>
lastVars == <<splitVars, apiVars, updateVars>>
laterVars == <<textVars, stampVars, karaokeVars, lastVars>>
restVars == <<twiceVars, pairVars, laterVars>>
extVars == <<procVars, restVars>>
vars == <<pc, genreVars, keyVars, segVars, anVars, extVars>>

\* The value of a local that has not been assigned yet.
Unset == "unset"

\* No process around the function being run.
ProcIdle ==
    /\ argv = <<>>
    /\ printed = <<>>
    /\ exit_status = Unset

\* No second call on the same file.
TwiceIdle ==
    /\ run = 0
    /\ first = <<>>

\* No call interleaved with the one being run.
PairIdle ==
    /\ call = 0
    /\ other = <<>>

\* text_detector.py is not being run.
TextIdle ==
    /\ image = <<>>
    /\ confidence = Unset

\* generate_timestamps.py is not being run.
StampIdle ==
    /\ force_cpu = FALSE
    /\ model_name = Unset
    /\ cuda = FALSE
    /\ faster_model = Unset
    /\ returned = Unset
    /\ attempted = <<>>
    /\ writers = <<>>
    /\ output_json = Unset

\* generate_karaoke_ass.py is not being run.
KaraokeIdle ==
    /\ timestamps_json = <<>>
    /\ lyrics_text = <<>>
    /\ config = <<>>
    /\ events = <<>>
    /\ created = {}

\* split_text_intelligently is not being run on its own.
SplitIdle ==
    /\ in_words = <<>>
    /\ in_max_chars = 0
    /\ out_lines = Unset

\* The WhisperX API service is not running.
ApiIdle ==
    /\ jobs = <<>>
    /\ handler = <<>>
    /\ tasks = <<>>
    /\ issued = <<>>
    /\ reply = <<>>

\* update_audio_analysis.py is not being run.
UpdateIdle ==
    /\ db = <<>>
    /\ songs = <<>>
    /\ song_i = 0
    /\ analysis = <<>>
    /\ success_count = 0
    /\ fail_count = 0

LastIdle == SplitIdle /\ ApiIdle /\ UpdateIdle

LaterIdle == TextIdle /\ StampIdle /\ KaraokeIdle /\ LastIdle

RestIdle == TwiceIdle /\ PairIdle /\ LaterIdle

ExtIdle == ProcIdle /\ RestIdle

----------------------------------------------------------------------------
(* estimate_genre, analyzer.py lines 66-137                                *)

Around(S) == UNION {{t - 1, t, t + 1} : t \in S}

\* Inputs of estimate_genre: each threshold of the cascade with its two
\* neighbours, and the example of the specification (125, 2600, 1850, 50, 3000).
TempoInputs == Around({70, 80, 90, 100, 110, 120, 130, 140, 150}) \cup {125}
CentroidInputs == Around({1500, 1800, 2000, 2500, 3000}) \cup {2600}
ZcrInputs == Around({80, 90, 100}) \cup {50}
RolloffInputs == {3000, 4000, 4001}
BandwidthInputs == Around({1800, 2000, 2200}) \cup {1850}

\* estimate_genre with the first rule's tempo bound made inclusive.
estimate_genre_inclusive(t, centroid, zcr, rolloff, bandwidth) ==
    IF t >= 120 /\ centroid > 2500 /\ bandwidth > 1800
    THEN (IF t > 140 THEN "Electronic" ELSE "Dance")
    ELSE IF zcr > 100 /\ rolloff > 4000
    THEN (IF t > 140 /\ centroid > 3000 THEN "Metal" ELSE "Rock")
    ELSE IF 80 <= t /\ t <= 110 /\ centroid < 2000 THEN "Hip-Hop"
    ELSE IF 70 <= t /\ t <= 100 /\ centroid < 2500 /\ zcr < 80 THEN "R&B"
    ELSE IF bandwidth > 2000 /\ 100 <= t /\ t <= 140 THEN "Jazz"
    ELSE IF bandwidth > 2200 /\ t < 140 THEN "Classical"
    ELSE IF 90 <= t /\ t <= 130 /\ 1500 <= centroid /\ centroid <= 2500
    THEN "Country"
    ELSE IF t < 100 /\ centroid < 1800 THEN "Blues"
    ELSE IF 100 <= t /\ t <= 130 THEN "Pop"
    ELSE IF 90 <= t /\ t <= 140 THEN "Indie"
    ELSE IF 80 <= t /\ t <= 110 /\ zcr < 90 THEN "Reggae"
    ELSE IF t < 80 THEN "Ballad"
    ELSE IF t > 150 THEN "Punk"
    ELSE "Alternative"

estimate_genre(t, centroid, zcr, rolloff, bandwidth) ==
    IF t > 120 /\ centroid > 2500 /\ bandwidth > 1800
    THEN (IF t > 140 THEN "Electronic" ELSE "Dance")
    ELSE IF zcr > 100 /\ rolloff > 4000
    THEN (IF t > 140 /\ centroid > 3000 THEN "Metal" ELSE "Rock")
    ELSE IF 80 <= t /\ t <= 110 /\ centroid < 2000 THEN "Hip-Hop"
    ELSE IF 70 <= t /\ t <= 100 /\ centroid < 2500 /\ zcr < 80 THEN "R&B"
    ELSE IF bandwidth > 2000 /\ 100 <= t /\ t <= 140 THEN "Jazz"
    ELSE IF bandwidth > 2200 /\ t < 140 THEN "Classical"
    ELSE IF 90 <= t /\ t <= 130 /\ 1500 <= centroid /\ centroid <= 2500
    THEN "Country"
    ELSE IF t < 100 /\ centroid < 1800 THEN "Blues"
    ELSE IF 100 <= t /\ t <= 130 THEN "Pop"
    ELSE IF 90 <= t /\ t <= 140 THEN "Indie"
    ELSE IF 80 <= t /\ t <= 110 /\ zcr < 90 THEN "Reggae"
    ELSE IF t < 80 THEN "Ballad"
    ELSE IF t > 150 THEN "Punk"
    ELSE "Alternative"

\* Locals of the other functions, untouched while estimate_genre runs.
KeyIdle ==
    /\ major_correlations = <<>>
    /\ minor_correlations = <<>>
    /\ key = Unset

SegIdle ==
    /\ rms = <<>>
    /\ sr = 0
    /\ i = 0
    /\ segments = <<>>
    /\ in_segment = FALSE
    /\ start_time = 0

AnIdle ==
    /\ duration = 0
    /\ beat_times = <<>>
    /\ vocal_segments = <<>>
    /\ result = [returned |-> FALSE]

GenreInit ==
    /\ pc = "estimate_genre"
    /\ tempo \in TempoInputs
    /\ spectral_centroid \in CentroidInputs
    /\ zero_crossing_rate \in ZcrInputs
    /\ spectral_rolloff \in RolloffInputs
    /\ spectral_bandwidth \in BandwidthInputs
    /\ genre = Unset
    /\ KeyIdle /\ SegIdle /\ AnIdle
    /\ ExtIdle

\* One call of estimate_genre on the features in the state.
EstimateGenre ==
    /\ pc = "estimate_genre"
    /\ genre' = estimate_genre(tempo, spectral_centroid, zero_crossing_rate,
                               spectral_rolloff, spectral_bandwidth)
    /\ pc' = "genre_returned"
    /\ UNCHANGED <<tempo, spectral_centroid, zero_crossing_rate,
                   spectral_rolloff, spectral_bandwidth>>
    /\ UNCHANGED <<keyVars, segVars, anVars>>
    /\ UNCHANGED extVars

GenreNext == EstimateGenre

SpecGenre == GenreInit /\ [][GenreNext]_vars

\* The rule table of the specification (section 4.5), rules 1..12 in order:
\* each rule's condition and the label it gives.
GenreRules(t, centroid, zcr, rolloff, bandwidth) ==
    << [cond |-> t > 120 /\ centroid > 2500 /\ bandwidth > 1800,
        label |-> IF t > 140 THEN "Electronic" ELSE "Dance"],
       [cond |-> zcr > 100 /\ rolloff > 4000,
        label |-> IF t > 140 /\ centroid > 3000 THEN "Metal" ELSE "Rock"],
       [cond |-> t \in 80..110 /\ centroid < 2000, label |-> "Hip-Hop"],
       [cond |-> t \in 70..100 /\ centroid < 2500 /\ zcr < 80, label |-> "R&B"],
       [cond |-> bandwidth > 2000 /\ t \in 100..140, label |-> "Jazz"],
       [cond |-> bandwidth > 2200 /\ t < 140, label |-> "Classical"],
       [cond |-> t \in 90..130 /\ centroid \in 1500..2500, label |-> "Country"],
       [cond |-> t < 100 /\ centroid < 1800, label |-> "Blues"],
       [cond |-> t \in 100..130, label |-> "Pop"],
       [cond |-> t \in 90..140, label |-> "Indie"],
       [cond |-> t \in 80..110 /\ zcr < 90, label |-> "Reggae"],
       [cond |-> TRUE,
        label |-> IF t < 80 THEN "Ballad"
                  ELSE IF t > 150 THEN "Punk" ELSE "Alternative"] >>

FirstRule(rules) ==
    CHOOSE k \in 1..Len(rules) :
        rules[k].cond /\ \A j \in 1..(k - 1) : ~rules[j].cond

\* C1: estimate_genre returns the label of the first rule of the table, in
\* the order 1..12, whose condition holds; for tempo 125, centroid 2600,
\* bandwidth 1850, zcr 0.05, rolloff 3000 that label is "Dance", not "Pop".
C1_FirstRuleWins ==
    pc = "genre_returned" =>
        LET rules == GenreRules(tempo, spectral_centroid, zero_crossing_rate,
                                spectral_rolloff, spectral_bandwidth)
        IN /\ genre = rules[FirstRule(rules)].label
           /\ (tempo = 125 /\ spectral_centroid = 2600
                  /\ spectral_bandwidth = 1850 /\ zero_crossing_rate = 50
                  /\ spectral_rolloff = 3000) => genre = "Dance"

\* The example of the specification has been classified: rule 9 ("Pop")
\* matches it too, and rule 1 has won.
C1_Witness ==
    /\ pc = "genre_returned"
    /\ tempo = 125 /\ spectral_centroid = 2600 /\ spectral_bandwidth = 1850
    /\ zero_crossing_rate = 50 /\ spectral_rolloff = 3000
    /\ GenreRules(tempo, spectral_centroid, zero_crossing_rate,
                  spectral_rolloff, spectral_bandwidth)[9].cond
    /\ genre = "Dance"

----------------------------------------------------------------------------
(* estimate_key, analyzer.py lines 17-45                                   *)

\* Bounds of the correlation inputs: at most MaxPeaks of the 24 correlations
\* differ from the common value 0, each by a rank in -1..MaxCorr.
MaxPeaks == 2
MaxCorr == 2

key_names == <<"C", "C#", "D", "D#", "E", "F", "F#", "G", "G#", "A", "A#", "B">>

\* Python's max(list) and list.index(value) (0-based, first occurrence).
max(list) == CHOOSE v \in {list[k] : k \in 1..Len(list)} :
                 \A k \in 1..Len(list) : list[k] <= v

index(list, v) ==
    (CHOOSE k \in 1..Len(list) :
         list[k] = v /\ \A j \in 1..(k - 1) : list[j] # v) - 1

\* estimate_key comparing with >= instead of >.
estimate_key_ge(major, minor) ==
    LET max_major == max(major)
        max_minor == max(minor)
    IN IF max_major >= max_minor
       THEN key_names[index(major, max_major) + 1] \o " Major"
       ELSE key_names[index(minor, max_minor) + 1] \o " Minor"

\* estimate_key looking the major winner up in the minor list's position.
estimate_key_wrong_index(major, minor) ==
    LET max_major == max(major)
        max_minor == max(minor)
    IN IF max_major > max_minor
       THEN key_names[index(minor, max_minor) + 1] \o " Major"
       ELSE key_names[index(minor, max_minor) + 1] \o " Minor"

\* Lines 36-45: the decision on the two correlation lists.
estimate_key(major, minor) ==
    LET max_major == max(major)
        max_minor == max(minor)
    IN IF max_major > max_minor
       THEN key_names[index(major, max_major) + 1] \o " Major"
       ELSE key_names[index(minor, max_minor) + 1] \o " Minor"

GenreIdle ==
    /\ tempo = 0
    /\ spectral_centroid = 0
    /\ zero_crossing_rate = 0
    /\ spectral_rolloff = 0
    /\ spectral_bandwidth = 0
    /\ genre = Unset

Peaks == Cardinality({k \in 1..12 : major_correlations[k] # 0})
         + Cardinality({k \in 1..12 : minor_correlations[k] # 0})

KeyInit ==
    /\ pc = "correlate"
    /\ major_correlations = [k \in 1..12 |-> 0]
    /\ minor_correlations = [k \in 1..12 |-> 0]
    /\ key = Unset
    /\ GenreIdle /\ SegIdle /\ AnIdle
    /\ ExtIdle

\* Lines 32-34: np.corrcoef gives the correlation of one rotation of the
\* major profile with the chroma its value.
CorrelateMajor ==
    /\ pc = "correlate"
    /\ Peaks < MaxPeaks
    /\ \E k \in 1..12, v \in (-1..MaxCorr) \ {0} :
           /\ major_correlations[k] = 0
           /\ major_correlations' = [major_correlations EXCEPT ![k] = v]
    /\ UNCHANGED <<pc, minor_correlations, key, genreVars, segVars, anVars>>
    /\ UNCHANGED extVars

\* Lines 32-34: the same for one rotation of the minor profile.
CorrelateMinor ==
    /\ pc = "correlate"
    /\ Peaks < MaxPeaks
    /\ \E k \in 1..12, v \in (-1..MaxCorr) \ {0} :
           /\ minor_correlations[k] = 0
           /\ minor_correlations' = [minor_correlations EXCEPT ![k] = v]
    /\ UNCHANGED <<pc, major_correlations, key, genreVars, segVars, anVars>>
    /\ UNCHANGED extVars

\* Lines 36-45: the best match is chosen and the label returned.
EstimateKey ==
    /\ pc = "correlate"
    /\ key' = estimate_key(major_correlations, minor_correlations)
    /\ pc' = "key_returned"
    /\ UNCHANGED <<major_correlations, minor_correlations>>
    /\ UNCHANGED <<genreVars, segVars, anVars>>
    /\ UNCHANGED extVars

KeyNext == CorrelateMajor \/ CorrelateMinor \/ EstimateKey

SpecKey == KeyInit /\ [][KeyNext]_vars

\* The 24 candidates: mode and rotation, with the candidate's correlation.
Candidates == {"Major", "Minor"} \X (1..12)

Corr(c) == IF c[1] = "Major" THEN major_correlations[c[2]]
           ELSE minor_correlations[c[2]]

BestMajor == CHOOSE c \in Candidates :
    c[1] = "Major" /\ \A d \in Candidates : d[1] = "Major" => Corr(d) <= Corr(c)

BestMinor == CHOOSE c \in Candidates :
    c[1] = "Minor" /\ \A d \in Candidates : d[1] = "Minor" => Corr(d) <= Corr(c)

Tie == Corr(BestMajor) = Corr(BestMinor)

MajorLabels == {key_names[k] \o " Major" : k \in 1..12}
MinorLabels == {key_names[k] \o " Minor" : k \in 1..12}

\* C2 as claimed: when the best major and the best minor correlation are
\* equal, estimate_key returns a Major label.
C2_TieGivesMajor ==
    (pc = "key_returned" /\ Tie) => key \in MajorLabels

\* C2 as amended: when the best major and the best minor correlation are
\* equal, estimate_key returns the Minor label, of the first rotation that
\* reaches the best minor correlation.
C2_TieGivesMinor ==
    (pc = "key_returned" /\ Tie) =>
        \E k \in 1..12 :
            /\ minor_correlations[k] = Corr(BestMinor)
            /\ \A j \in 1..(k - 1) : minor_correlations[j] < Corr(BestMinor)
            /\ key = key_names[k] \o " Minor"

\* A chroma equally correlated with the major and the minor template at the
\* same rotation, both above every other candidate, has been labelled.
C2_Witness ==
    /\ pc = "key_returned"
    /\ \E k \in 1..12 :
          /\ major_correlations[k] = minor_correlations[k]
          /\ \A d \in Candidates : d[2] # k => Corr(d) < major_correlations[k]
          /\ key = key_names[k] \o " Minor"

\* C3: when one of the 24 correlations is strictly above the 23 others, the
\* label is "<name> <mode>" with the mode and the rotation of that one, the
\* name being the rotation's entry of C, C#, D, D#, E, F, F#, G, G#, A, A#, B.
C3_UniqueMaximumLabel ==
    pc = "key_returned" =>
        \A c \in Candidates :
            (\A d \in Candidates : d # c => Corr(d) < Corr(c)) =>
                key = <<"C", "C#", "D", "D#", "E", "F", "F#", "G", "G#", "A",
                        "A#", "B">>[c[2]] \o " " \o c[1]

\* A unique maximum in the major list at rotation 9 with a runner-up in the
\* minor list at another rotation has been labelled "G# Major".
C3_Witness ==
    /\ pc = "key_returned"
    /\ major_correlations[9] = 2
    /\ \E k \in 1..12 : k # 9 /\ minor_correlations[k] = 1
    /\ key = "G# Major"

----------------------------------------------------------------------------
(* detect_vocal_segments, analyzer.py lines 140-187                        *)

\* Bound of the input: the number of RMS frames of the signal.
MaxFrames == 8

hop_length == 512

\* Frame RMS values: silence, a quiet frame, a loud frame.  A quiet frame is
\* above, at or below half the mean depending on the rest of the signal.
RmsLevels == {0, 1, 3}

\* Sample rates: one frame step is 0.25 s at 2048 Hz and 0.2 s at 2560 Hz.
SampleRates == {2048, 2560}

RECURSIVE sum(_)
sum(list) == IF list = <<>> THEN 0 ELSE Head(list) + sum(Tail(list))

\* Line 151, librosa.frames_to_time: the time of the frame at position k
\* (0-based frame index k - 1), as a sample count.
times(k) == (k - 1) * hop_length

\* is_vocal with the comparison made inclusive.
is_vocal_inclusive(list, k) == 2 * Len(list) * list[k] >= sum(list)

\* Lines 154-157: threshold = mean(rms) * 0.5, is_vocal = rms > threshold;
\* rms[k] > sum / (2 * len) without the division.
is_vocal(list, k) == 2 * Len(list) * list[k] > sum(list)

\* The loop body emitting a segment of exactly 0.5 s too.
loop_body_inclusive(loc, time, vocal, rate) ==
    IF vocal /\ ~loc.in_segment
    THEN [loc EXCEPT !.start_time = time, !.in_segment = TRUE]
    ELSE IF ~vocal /\ loc.in_segment
    THEN [loc EXCEPT
            !.segments = IF 2 * (time - loc.start_time) >= rate
                         THEN Append(@, [start |-> loc.start_time,
                                         end |-> time,
                                         duration |-> time - loc.start_time])
                         ELSE @,
            !.in_segment = FALSE]
    ELSE loc

\* The loop body without the reset of in_segment once a segment is closed.
loop_body_no_reset(loc, time, vocal, rate) ==
    IF vocal /\ ~loc.in_segment
    THEN [loc EXCEPT !.start_time = time, !.in_segment = TRUE]
    ELSE IF ~vocal /\ loc.in_segment
    THEN [loc EXCEPT
            !.segments = IF 2 * (time - loc.start_time) > rate
                         THEN Append(@, [start |-> loc.start_time,
                                         end |-> time,
                                         duration |-> time - loc.start_time])
                         ELSE @]
    ELSE loc

\* Lines 165-177: one iteration of the loop over (time, vocal), on the
\* locals loc = [segments, in_segment, start_time]; rate is sr, and
\* "time - start_time > 0.5" seconds is 2 * (time - start_time) > rate.
loop_body(loc, time, vocal, rate) ==
    IF vocal /\ ~loc.in_segment
    THEN [loc EXCEPT !.start_time = time, !.in_segment = TRUE]
    ELSE IF ~vocal /\ loc.in_segment
    THEN [loc EXCEPT
            !.segments = IF 2 * (time - loc.start_time) > rate
                         THEN Append(@, [start |-> loc.start_time,
                                         end |-> time,
                                         duration |-> time - loc.start_time])
                         ELSE @,
            !.in_segment = FALSE]
    ELSE loc

\* The final close keeping the open segment only if it is longer than 0.5 s.
close_final_filtered(loc, last, rate) ==
    IF loc.in_segment /\ 2 * (last - loc.start_time) > rate
    THEN Append(loc.segments, [start |-> loc.start_time,
                               end |-> last,
                               duration |-> last - loc.start_time])
    ELSE loc.segments

\* Lines 179-187: the segment still open after the loop is closed at
\* times[-1]; the list is returned.
close_final(loc, last, rate) ==
    IF loc.in_segment
    THEN Append(loc.segments, [start |-> loc.start_time,
                               end |-> last,
                               duration |-> last - loc.start_time])
    ELSE loc.segments

\* The segment list shared with the call that is not running.
loop_init_shared ==
    [segments |-> IF call \in {1, 2} THEN other.segments ELSE <<>>,
     in_segment |-> FALSE,
     start_time |-> 0]

\* The segment list starting from what an earlier call on the file returned.
loop_init_stale ==
    [segments |-> IF run = 2 /\ first.result.success
                  THEN first.result.vocal_segments
                  ELSE <<>>,
     in_segment |-> FALSE,
     start_time |-> 0]

\* Lines 160-162: segments = [], in_segment = False, start_time = 0.
loop_init == [segments |-> <<>>, in_segment |-> FALSE, start_time |-> 0]

\* Lines 160-177: the locals after the first n iterations of the loop.
RECURSIVE loop(_, _, _)
loop(list, rate, n) ==
    IF n = 0
    THEN loop_init
    ELSE loop_body(loop(list, rate, n - 1), times(n), is_vocal(list, n), rate)

\* The whole function on the frame RMS values of a signal.
detect_vocal_segments(list, rate) ==
    close_final(loop(list, rate, Len(list)), times(Len(list)), rate)

SegInit ==
    /\ pc = "segment_loop"
    /\ rms \in UNION {[1..n -> RmsLevels] : n \in 1..MaxFrames}
    /\ sr \in SampleRates
    /\ i = 0
    /\ segments = <<>>
    /\ in_segment = FALSE
    /\ start_time = 0
    /\ GenreIdle /\ KeyIdle /\ AnIdle
    /\ ExtIdle

\* One iteration of the loop of lines 164-177, on frame i + 1.
LoopFrame ==
    /\ pc = "segment_loop"
    /\ i < Len(rms)
    /\ LET loc == loop_body([segments |-> segments, in_segment |-> in_segment,
                             start_time |-> start_time],
                            times(i + 1), is_vocal(rms, i + 1), sr)
       IN /\ segments' = loc.segments
          /\ in_segment' = loc.in_segment
          /\ start_time' = loc.start_time
    /\ i' = i + 1
    /\ UNCHANGED <<pc, rms, sr, genreVars, keyVars, anVars>>
    /\ UNCHANGED extVars

\* Lines 179-187, once the loop has consumed every frame.
CloseFinal ==
    /\ pc = "segment_loop"
    /\ i = Len(rms)
    /\ segments' = close_final([segments |-> segments,
                                in_segment |-> in_segment,
                                start_time |-> start_time],
                               times(Len(rms)), sr)
    /\ pc' = "segments_returned"
    /\ UNCHANGED <<rms, sr, i, in_segment, start_time>>
    /\ UNCHANGED <<genreVars, keyVars, anVars>>
    /\ UNCHANGED extVars

SegNext == LoopFrame \/ CloseFinal

SpecSeg == SegInit /\ [][SegNext]_vars

\* A frame is active when its RMS is strictly above half the mean RMS.
Active(k) == rms[k] * 2 * Len(rms) > sum(rms)

\* C4 as claimed: every returned segment has end > start and
\* duration = end - start >= 0.5 s, the one open at the end of the signal
\* included.
C4_SegmentsLongEnough ==
    pc = "segments_returned" =>
        \A k \in 1..Len(segments) :
            /\ segments[k].end > segments[k].start
            /\ segments[k].duration = segments[k].end - segments[k].start
            /\ 2 * segments[k].duration >= sr

\* C5: an inactive frame that closes an open segment appends that segment,
\* from the opening frame's time to this frame's time, if and only if the
\* difference is strictly above 0.5 s, and otherwise leaves the list as it
\* was; 0.4 s is discarded and 0.6 s is emitted.
C5_CloseEmitsIffLonger ==
    [][(pc = "segment_loop" /\ i < Len(rms) /\ in_segment /\ ~Active(i + 1)) =>
          LET d == times(i + 1) - start_time
              closed == Append(segments, [start |-> start_time,
                                          end |-> times(i + 1),
                                          duration |-> d])
          IN /\ (segments' = closed) <=> (2 * d > sr)
             /\ (segments' = segments) <=> ~(2 * d > sr)
             /\ 10 * d = 4 * sr => segments' = segments
             /\ 10 * d = 6 * sr => segments' = closed]_vars

\* At 2560 Hz the first two frames were active and the third closed the
\* segment after 0.4 s: nothing has been emitted.
C5_Witness ==
    /\ pc = "segment_loop"
    /\ sr = 2560
    /\ i = 3
    /\ Len(rms) >= 3
    /\ Active(1) /\ Active(2) /\ ~Active(3)
    /\ 10 * (times(3) - times(1)) = 4 * sr
    /\ ~in_segment
    /\ segments = <<>>

\* The first frame of the run of active frames that ends the signal.
FinalRunStart ==
    CHOOSE s \in 1..Len(rms) :
        /\ \A j \in s..Len(rms) : Active(j)
        /\ s = 1 \/ ~Active(s - 1)

\* C6: when the last frame is active, the returned list ends with the
\* segment that was open, from its opening frame to the final frame's time.
C6_OpenSegmentKept ==
    (pc = "segments_returned" /\ Active(Len(rms))) =>
        /\ Len(segments) >= 1
        /\ segments[Len(segments)].start = times(FinalRunStart)
        /\ segments[Len(segments)].end = times(Len(rms))

\* Only the last of four frames is active: the segment opened there is
\* returned although it lasts no time at all.
C6_Witness ==
    /\ pc = "segments_returned"
    /\ Len(rms) = 4
    /\ Active(4) /\ ~Active(3)
    /\ segments = <<[start |-> times(4), end |-> times(4), duration |-> 0]>>

\* C7: the segments are in increasing time order and do not overlap.
C7_OrderedDisjoint ==
    \A k \in 1..(Len(segments) - 1) :
        /\ segments[k].end <= segments[k + 1].start
        /\ segments[k].start < segments[k + 1].start

\* Two segments, each closed by an inactive frame, have been returned.
C7_Witness ==
    /\ pc = "segments_returned"
    /\ Len(segments) = 2
    /\ ~Active(Len(rms))
    /\ segments[1].end < segments[2].start

\* C8 as claimed: each returned segment starts at an active frame met while
\* no segment is open (the first frame, or one after an inactive frame), its
\* frames are active, and it ends at the time of the first later frame that
\* is not active.
C8_EndIsClosingFrame ==
    pc = "segments_returned" =>
        \A k \in 1..Len(segments) :
            \E s \in 1..Len(rms), e \in 1..Len(rms) :
                /\ s < e
                /\ s = 1 \/ ~Active(s - 1)
                /\ \A j \in s..(e - 1) : Active(j)
                /\ ~Active(e)
                /\ segments[k].start = times(s)
                /\ segments[k].end = times(e)

\* C8 as amended: the same, except that the segment still open when the
\* signal ends has the time of the final frame as its end.
C8_EndIsClosingOrFinalFrame ==
    pc = "segments_returned" =>
        \A k \in 1..Len(segments) :
            \E s \in 1..Len(rms), e \in 1..Len(rms) :
                /\ s = 1 \/ ~Active(s - 1)
                /\ segments[k].start = times(s)
                /\ segments[k].end = times(e)
                /\ \/ /\ s < e
                      /\ \A j \in s..(e - 1) : Active(j)
                      /\ ~Active(e)
                   \/ /\ e = Len(rms)
                      /\ k = Len(segments)
                      /\ \A j \in s..e : Active(j)

\* A quiet frame exactly at half the mean is not active: it closes the
\* segment of the three loud frames before it, and its time is the end.
C8_Witness ==
    /\ pc = "segments_returned"
    /\ rms = <<3, 3, 3, 1, 0>>
    /\ 2 * rms[4] * Len(rms) = sum(rms)
    /\ segments = <<[start |-> times(1), end |-> times(4),
                     duration |-> times(4) - times(1)]>>

----------------------------------------------------------------------------
(* get_tempo_description and analyze_audio, analyzer.py lines 48-63, 190-249 *)

\* Bound of the input: the tempo beat_track reports is one of 0..MaxTempo.
MaxTempo == 170

\* get_tempo_description with every bound made inclusive.
get_tempo_description_inclusive(bpm) ==
    IF bpm <= 60 THEN "Very Slow"
    ELSE IF bpm <= 80 THEN "Slow"
    ELSE IF bpm <= 100 THEN "Moderate"
    ELSE IF bpm <= 120 THEN "Medium Fast"
    ELSE IF bpm <= 140 THEN "Fast"
    ELSE IF bpm <= 160 THEN "Very Fast"
    ELSE "Extremely Fast"

get_tempo_description(bpm) ==
    IF bpm < 60 THEN "Very Slow"
    ELSE IF bpm < 80 THEN "Slow"
    ELSE IF bpm < 100 THEN "Moderate"
    ELSE IF bpm < 120 THEN "Medium Fast"
    ELSE IF bpm < 140 THEN "Fast"
    ELSE IF bpm < 160 THEN "Very Fast"
    ELSE "Extremely Fast"

\* The statements of the try block, in order; pc names the next one to run.
Stages == <<"load", "get_duration", "beat_track", "estimate_key",
            "detect_vocal_segments", "spectral", "estimate_genre", "assemble">>

StageSet == {Stages[k] : k \in 1..Len(Stages)}

\* What the library calls can raise: type(e).__name__; str(e) is modelled
\* as the name of the statement that raised.
ExceptionTypes == {"FileNotFoundError", "ParameterError"}

\* Signals, as their frame RMS values: silence, a long burst that ends, and
\* a signal whose last frame alone is loud.
Signals == {<<0, 0, 0>>, <<3, 3, 3, 3, 0>>, <<0, 0, 3>>}

\* What beat_track can report as beat times (sample counts).
BeatGrids == {<<>>, <<0, 1024>>}

\* What the chroma of a signal can correlate like: one rotation of the major
\* profile alone on top, or one rotation of each profile level on top.
Chromas ==
    {[major |-> [k \in 1..12 |-> IF k = 8 THEN 2 ELSE 0],
      minor |-> [k \in 1..12 |-> 0]],
     [major |-> [k \in 1..12 |-> IF k = 1 THEN 1 ELSE 0],
      minor |-> [k \in 1..12 |-> IF k = 10 THEN 1 ELSE 0]]}

\* A decoded signal of at least one frame whose samples are all zero.
Silent(signal) ==
    /\ Len(signal) >= 1
    /\ \A k \in 1..Len(signal) : signal[k] = 0

\* What librosa.beat.beat_track can report for a signal (section 4.2 of the
\* specification): no beats and 0 BPM when there is nothing to track, any
\* tempo with any beat grid otherwise.
beat_track(signal) ==
    IF Silent(signal)
    THEN {[tempo |-> 0, beats |-> <<>>]}
    ELSE {[tempo |-> t, beats |-> b] : t \in 0..MaxTempo, b \in BeatGrids}

\* Whether the library call of a statement can raise (sections 4.2 and 8 of
\* the specification): the load of any file can; on a decoded silent signal
\* no later call does.
library_raises(stage) == IF stage = "load" THEN TRUE ELSE ~Silent(rms)

\* The except clause returning what the try block had computed so far too.
failure_result_partial(e) ==
    [success |-> FALSE, error |-> e.message, error_type |-> e.type,
     sample_rate |-> sr]

\* The except clause reporting a fixed tag instead of the exception's class.
failure_result_tagged(e) ==
    [success |-> FALSE, error |-> e.message,
     error_type |-> "InternalComputationError"]

\* Lines 244-249: the record the except clause returns for exception e.
failure_result(e) ==
    [success |-> FALSE, error |-> e.message, error_type |-> e.type]

\* The result record with the two counts in each other's place.
success_result_counts_swapped ==
    [duration_seconds |-> duration,
     bpm |-> tempo,
     key |-> key,
     tempo |-> get_tempo_description(tempo),
     genre |-> genre,
     beat_times |-> beat_times,
     beat_count |-> Len(vocal_segments),
     vocal_segments |-> vocal_segments,
     vocal_segment_count |-> Len(beat_times),
     spectral_centroid |-> spectral_centroid,
     zero_crossing_rate |-> zero_crossing_rate,
     sample_rate |-> sr,
     success |-> TRUE]

\* Lines 226-240: the record of a successful analysis.
success_result ==
    [duration_seconds |-> duration,
     bpm |-> tempo,
     key |-> key,
     tempo |-> get_tempo_description(tempo),
     genre |-> genre,
     beat_times |-> beat_times,
     beat_count |-> Len(beat_times),
     vocal_segments |-> vocal_segments,
     vocal_segment_count |-> Len(vocal_segments),
     spectral_centroid |-> spectral_centroid,
     zero_crossing_rate |-> zero_crossing_rate,
     sample_rate |-> sr,
     success |-> TRUE]

\* The locals of analyze_audio before its first statement.
AnalyzeLocals ==
    /\ rms = Unset
    /\ sr = Unset
    /\ duration = Unset
    /\ tempo = Unset
    /\ beat_times = Unset
    /\ major_correlations = Unset
    /\ minor_correlations = Unset
    /\ key = Unset
    /\ vocal_segments = Unset
    /\ spectral_centroid = Unset
    /\ zero_crossing_rate = Unset
    /\ spectral_rolloff = Unset
    /\ spectral_bandwidth = Unset
    /\ genre = Unset
    /\ result = [returned |-> FALSE]
    /\ i = 0
    /\ segments = <<>>
    /\ in_segment = FALSE
    /\ start_time = 0

AnalyzeEntry == pc = "load" /\ AnalyzeLocals

AnalyzeInit == AnalyzeEntry /\ ExtIdle

loopVars == <<i, segments, in_segment, start_time>>

\* Line 202: y, sr = librosa.load(file_path, sr=None).
Load ==
    /\ pc = "load"
    /\ rms' \in Signals
    /\ sr' \in SampleRates
    /\ pc' = "get_duration"
    /\ UNCHANGED <<genreVars, keyVars, anVars, loopVars>>
    /\ UNCHANGED extVars

\* Line 205: duration = librosa.get_duration(y=y, sr=sr), as a sample count.
GetDuration ==
    /\ pc = "get_duration"
    /\ duration' = Len(rms) * hop_length
    /\ pc' = "beat_track"
    /\ UNCHANGED <<rms, sr, beat_times, vocal_segments, result>>
    /\ UNCHANGED <<genreVars, keyVars, loopVars>>
    /\ UNCHANGED extVars

\* Beat tracking handing over to the vocal segmentation, the key left out.
BeatTrack_skipping_key ==
    /\ pc = "beat_track"
    /\ \E o \in beat_track(rms) :
           /\ tempo' = o.tempo
           /\ beat_times' = o.beats
    /\ pc' = "detect_vocal_segments"
    /\ UNCHANGED <<spectral_centroid, zero_crossing_rate, spectral_rolloff,
                   spectral_bandwidth, genre>>
    /\ UNCHANGED <<rms, sr, duration, vocal_segments, result>>
    /\ UNCHANGED <<keyVars, loopVars>>
    /\ UNCHANGED extVars

\* Lines 208-209: tempo and beat times from librosa.beat.beat_track.
BeatTrack ==
    /\ pc = "beat_track"
    /\ \E o \in beat_track(rms) :
           /\ tempo' = o.tempo
           /\ beat_times' = o.beats
    /\ pc' = "estimate_key"
    /\ UNCHANGED <<spectral_centroid, zero_crossing_rate, spectral_rolloff,
                   spectral_bandwidth, genre>>
    /\ UNCHANGED <<rms, sr, duration, vocal_segments, result>>
    /\ UNCHANGED <<keyVars, loopVars>>
    /\ UNCHANGED extVars

\* Lines 212-213: chroma = chroma_cqt(...), key = estimate_key(chroma).
ChromaKey ==
    /\ pc = "estimate_key"
    /\ \E c \in Chromas :
           /\ major_correlations' = c.major
           /\ minor_correlations' = c.minor
           /\ key' = estimate_key(c.major, c.minor)
    /\ pc' = "detect_vocal_segments"
    /\ UNCHANGED <<rms, sr, genreVars, anVars, loopVars>>
    /\ UNCHANGED extVars

\* Line 216: vocal_segments = detect_vocal_segments(y, sr, beat_times).
VocalSegments ==
    /\ pc = "detect_vocal_segments"
    /\ vocal_segments' = detect_vocal_segments(rms, sr)
    /\ pc' = "spectral"
    /\ UNCHANGED <<rms, sr, duration, beat_times, result>>
    /\ UNCHANGED <<genreVars, keyVars, loopVars>>
    /\ UNCHANGED extVars

\* Lines 219-220: the two spectral scalars.
Spectral ==
    /\ pc = "spectral"
    /\ spectral_centroid' \in {1000, 2600}
    /\ zero_crossing_rate' \in {50, 120}
    /\ pc' = "estimate_genre"
    /\ UNCHANGED <<tempo, spectral_rolloff, spectral_bandwidth, genre>>
    /\ UNCHANGED <<rms, sr, keyVars, anVars, loopVars>>
    /\ UNCHANGED extVars

\* Line 223: genre = estimate_genre(...), which computes rolloff and
\* bandwidth itself (lines 73-74).
Genre ==
    /\ pc = "estimate_genre"
    /\ spectral_rolloff' \in {3000, 4001}
    /\ spectral_bandwidth' = 1850
    /\ genre' = estimate_genre(tempo, spectral_centroid, zero_crossing_rate,
                               spectral_rolloff', spectral_bandwidth')
    /\ pc' = "assemble"
    /\ UNCHANGED <<tempo, spectral_centroid, zero_crossing_rate>>
    /\ UNCHANGED <<rms, sr, keyVars, anVars, loopVars>>
    /\ UNCHANGED extVars

\* Lines 226-242: the result record is built and returned.
Assemble ==
    /\ pc = "assemble"
    /\ result' = success_result
    /\ pc' = "returned"
    /\ UNCHANGED <<duration, beat_times, vocal_segments>>
    /\ UNCHANGED <<rms, sr, genreVars, keyVars, loopVars>>
    /\ UNCHANGED extVars

\* Lines 244-249: the statement pc names raises; the except clause returns.
Raise ==
    /\ pc \in StageSet
    /\ library_raises(pc)
    /\ \E ty \in ExceptionTypes :
           result' = failure_result([type |-> ty, message |-> pc])
    /\ pc' = "returned"
    /\ UNCHANGED <<duration, beat_times, vocal_segments>>
    /\ UNCHANGED <<rms, sr, genreVars, keyVars, loopVars>>
    /\ UNCHANGED extVars

AnalyzeNext ==
    \/ Load \/ GetDuration \/ BeatTrack \/ ChromaKey \/ VocalSegments
    \/ Spectral \/ Genre \/ Assemble \/ Raise

SpecAnalyze == AnalyzeInit /\ [][AnalyzeNext]_vars

\* The table of tempo descriptions (section 4.5): the labels whose interval
\* holds bpm.
TempoLabels(bpm) ==
    {r.label : r \in
        {r \in {[label |-> "Very Slow", holds |-> bpm < 60],
                [label |-> "Slow", holds |-> 60 <= bpm /\ bpm < 80],
                [label |-> "Moderate", holds |-> 80 <= bpm /\ bpm < 100],
                [label |-> "Medium Fast", holds |-> 100 <= bpm /\ bpm < 120],
                [label |-> "Fast", holds |-> 120 <= bpm /\ bpm < 140],
                [label |-> "Very Fast", holds |-> 140 <= bpm /\ bpm < 160],
                [label |-> "Extremely Fast", holds |-> bpm >= 160]} :
            r.holds}}

\* C9: the tempo field of a success record is the one label of the table
\* whose interval holds the value reported in bpm.
C9_TempoLabelOfBpm ==
    (pc = "returned" /\ result.success) =>
        TempoLabels(result.bpm) = {result.tempo}

\* A success record reports 120 BPM, the lower end of "Fast".
C9_Witness ==
    /\ pc = "returned"
    /\ result.success
    /\ result.bpm = 120
    /\ result.tempo = "Fast"

AnalysisFields ==
    {"duration_seconds", "bpm", "key", "tempo", "genre", "beat_times",
     "beat_count", "vocal_segments", "vocal_segment_count",
     "spectral_centroid", "zero_crossing_rate", "sample_rate"}

\* C10: a record returned after a stage has failed has success = false and
\* none of the analysis fields, whichever stages had completed; a record
\* with success = true has all of them.
C10_FailureCarriesNoAnalysis ==
    pc = "returned" =>
        /\ result.success <=> "error" \notin DOMAIN result
        /\ ~result.success =>
               /\ result.error \in StageSet
               /\ DOMAIN result \cap AnalysisFields = {}
        /\ result.success => AnalysisFields \subseteq DOMAIN result

\* The genre stage has failed after every earlier stage completed: the
\* record holds none of what they computed.
C10_Witness ==
    /\ pc = "returned"
    /\ ~result.success
    /\ result.error = "estimate_genre"
    /\ duration > 0 /\ tempo >= 0 /\ key \in MajorLabels \cup MinorLabels
    /\ Len(vocal_segments) >= 0 /\ spectral_centroid > 0
    /\ genre = Unset
    /\ DOMAIN result = {"success", "error", "error_type"}

\* C14: the analysis of an all-zero signal of at least one frame returns a
\* success record with bpm = 0, no beats and vocal_segment_count = 0: the
\* threshold is 0, no frame is strictly above it and no segment is opened.
C14_SilenceGivesEmptySuccess ==
    pc = "returned" =>
        /\ (~result.success /\ result.error # "load") => ~Silent(rms)
        /\ (result.success /\ Silent(rms)) =>
               /\ result.bpm = 0
               /\ result.beat_count = 0
               /\ result.beat_times = <<>>
               /\ result.vocal_segment_count = 0
               /\ result.vocal_segments = <<>>

\* Three frames of silence have been analysed.
C14_Witness ==
    /\ pc = "returned"
    /\ result.success
    /\ rms = <<0, 0, 0>>
    /\ sum(rms) = 0
    /\ result.vocal_segment_count = 0

\* C24: in every success record beat_count is the number of entries of
\* beat_times and vocal_segment_count the number of entries of
\* vocal_segments.
C24_CountsMatchLists ==
    (pc = "returned" /\ result.success) =>
        /\ result.beat_count = Len(result.beat_times)
        /\ result.vocal_segment_count = Len(result.vocal_segments)
        /\ result.beat_times = beat_times
        /\ result.vocal_segments = vocal_segments

\* A success record with two beats and one vocal segment.
C24_Witness ==
    /\ pc = "returned"
    /\ result.success
    /\ result.beat_count = 2
    /\ result.vocal_segment_count = 1
    /\ Len(result.beat_times) = 2

\* The order of the stages as claimed, and the stage after a stage.
ClaimedOrder ==
    <<"load", "get_duration", "beat_track", "estimate_key",
      "detect_vocal_segments", "spectral", "estimate_genre", "assemble">>

Position(stage) == CHOOSE k \in 1..Len(ClaimedOrder) : ClaimedOrder[k] = stage

\* C18: analyze_audio runs load, duration, beat tracking, chroma/key, vocal
\* segmentation, spectral scalars, genre and result assembly in this order;
\* the genre classifier runs with BPM, centroid and zero-crossing rate
\* already computed; a stage that fails goes directly to the failure result,
\* no local of a later stage is assigned and nothing runs after the return.
C18_FixedStageOrder ==
    [][/\ pc \in {ClaimedOrder[k] : k \in 1..Len(ClaimedOrder)}
       /\ IF pc' = "returned"
          THEN IF result'.success
               THEN pc = "assemble"
               ELSE /\ result'.error = pc
                    /\ UNCHANGED <<genreVars, keyVars, segVars, duration,
                                   beat_times, vocal_segments>>
          ELSE /\ Position(pc) < Len(ClaimedOrder)
               /\ pc' = ClaimedOrder[Position(pc) + 1]
       /\ pc = "estimate_genre" /\ pc' = "assemble" =>
              /\ tempo >= 0
              /\ spectral_centroid > 0
              /\ zero_crossing_rate > 0
              /\ genre' = estimate_genre(tempo, spectral_centroid,
                                         zero_crossing_rate,
                                         spectral_rolloff',
                                         spectral_bandwidth')
      ]_vars

\* The vocal segmentation failed after the key was estimated: the call has
\* returned the failure and no later stage has assigned its locals.
C18_Witness ==
    /\ pc = "returned"
    /\ ~result.success
    /\ result.error = "detect_vocal_segments"
    /\ key \in MajorLabels \cup MinorLabels
    /\ vocal_segments = Unset
    /\ spectral_centroid = Unset
    /\ genre = Unset

----------------------------------------------------------------------------
(* analyze_audio called twice on one file. The function keeps nothing      *)
(* between calls: every local of lines 202-240 belongs to the call. The    *)
(* second call reads the same file, so each library call is given the same *)
(* input and answers (or raises) as it did in the first call.              *)
(***************************************************************************)

TwiceInit ==
    /\ AnalyzeEntry
    /\ ProcIdle
    /\ PairIdle
    /\ LaterIdle
    /\ run = 1
    /\ first = <<>>

\* Line 190: the second call starts with locals of its own.
fresh_locals ==
    [rms |-> Unset, sr |-> Unset, duration |-> Unset, tempo |-> Unset,
     beat_times |-> Unset, major_correlations |-> Unset,
     minor_correlations |-> Unset, key |-> Unset, vocal_segments |-> Unset,
     spectral_centroid |-> Unset, zero_crossing_rate |-> Unset,
     spectral_rolloff |-> Unset, spectral_bandwidth |-> Unset,
     genre |-> Unset, result |-> [returned |-> FALSE]]

\* The first call has returned; the same file is analysed again.
Reinvoke ==
    /\ pc = "returned"
    /\ run = 1
    /\ run' = 2
    /\ first' = [rms |-> rms, sr |-> sr, tempo |-> tempo,
                 beat_times |-> beat_times,
                 major_correlations |-> major_correlations,
                 minor_correlations |-> minor_correlations,
                 spectral_centroid |-> spectral_centroid,
                 zero_crossing_rate |-> zero_crossing_rate,
                 spectral_rolloff |-> spectral_rolloff,
                 spectral_bandwidth |-> spectral_bandwidth,
                 result |-> result]
    /\ pc' = "load"
    /\ rms' = fresh_locals.rms
    /\ sr' = fresh_locals.sr
    /\ duration' = fresh_locals.duration
    /\ tempo' = fresh_locals.tempo
    /\ beat_times' = fresh_locals.beat_times
    /\ major_correlations' = fresh_locals.major_correlations
    /\ minor_correlations' = fresh_locals.minor_correlations
    /\ key' = fresh_locals.key
    /\ vocal_segments' = fresh_locals.vocal_segments
    /\ spectral_centroid' = fresh_locals.spectral_centroid
    /\ zero_crossing_rate' = fresh_locals.zero_crossing_rate
    /\ spectral_rolloff' = fresh_locals.spectral_rolloff
    /\ spectral_bandwidth' = fresh_locals.spectral_bandwidth
    /\ genre' = fresh_locals.genre
    /\ result' = fresh_locals.result
    /\ UNCHANGED <<loopVars, procVars, pairVars, laterVars>>

\* The statement that raised in the first call raises in the second one.
RaisedAt(stage) == ~first.result.success /\ first.result.error = stage

\* In the second call the library call of the statement just run answered as
\* it did in the first call.
SameFile ==
    IF run = 2
    THEN /\ ~RaisedAt(pc)
         /\ CASE pc = "load" -> rms' = first.rms /\ sr' = first.sr
              [] pc = "beat_track" ->
                     tempo' = first.tempo /\ beat_times' = first.beat_times
              [] pc = "estimate_key" ->
                     /\ major_correlations' = first.major_correlations
                     /\ minor_correlations' = first.minor_correlations
              [] pc = "spectral" ->
                     /\ spectral_centroid' = first.spectral_centroid
                     /\ zero_crossing_rate' = first.zero_crossing_rate
              [] pc = "estimate_genre" ->
                     /\ spectral_rolloff' = first.spectral_rolloff
                     /\ spectral_bandwidth' = first.spectral_bandwidth
              [] OTHER -> TRUE
    ELSE TRUE

\* In the second call the exception of the first call is raised again.
SameException ==
    IF run = 2
    THEN RaisedAt(pc) /\ result'.error_type = first.result.error_type
    ELSE TRUE

TwiceLoad == SameFile /\ Load
TwiceGetDuration == SameFile /\ GetDuration
TwiceBeatTrack == SameFile /\ BeatTrack
TwiceChromaKey == SameFile /\ ChromaKey
TwiceVocalSegments == SameFile /\ VocalSegments
TwiceSpectral == SameFile /\ Spectral
TwiceGenre == SameFile /\ Genre
TwiceAssemble == SameFile /\ Assemble
TwiceRaise == Raise /\ SameException

TwiceNext ==
    \/ TwiceLoad \/ TwiceGetDuration \/ TwiceBeatTrack \/ TwiceChromaKey
    \/ TwiceVocalSegments \/ TwiceSpectral \/ TwiceGenre \/ TwiceAssemble
    \/ TwiceRaise \/ Reinvoke

SpecTwice == TwiceInit /\ [][TwiceNext]_vars

----------------------------------------------------------------------------
(* Two calls of analyze_audio on different files, interleaved statement by *)
(* statement and, inside detect_vocal_segments, iteration by iteration.    *)
(* The variables of the sections above are the locals of the call that is  *)
(* running; the locals of the other call are kept in other.                *)
(***************************************************************************)

\* The locals of the running call, with its control location.
frame ==
    [pc |-> pc, tempo |-> tempo, spectral_centroid |-> spectral_centroid,
     zero_crossing_rate |-> zero_crossing_rate,
     spectral_rolloff |-> spectral_rolloff,
     spectral_bandwidth |-> spectral_bandwidth, genre |-> genre,
     major_correlations |-> major_correlations,
     minor_correlations |-> minor_correlations, key |-> key,
     rms |-> rms, sr |-> sr, i |-> i, segments |-> segments,
     in_segment |-> in_segment, start_time |-> start_time,
     duration |-> duration, beat_times |-> beat_times,
     vocal_segments |-> vocal_segments, result |-> result]

\* The locals of a call that has not run its first statement.
entry_frame ==
    [pc |-> "load", tempo |-> Unset, spectral_centroid |-> Unset,
     zero_crossing_rate |-> Unset, spectral_rolloff |-> Unset,
     spectral_bandwidth |-> Unset, genre |-> Unset,
     major_correlations |-> Unset, minor_correlations |-> Unset,
     key |-> Unset, rms |-> Unset, sr |-> Unset, i |-> 0, segments |-> <<>>,
     in_segment |-> FALSE, start_time |-> 0, duration |-> Unset,
     beat_times |-> Unset, vocal_segments |-> Unset,
     result |-> [returned |-> FALSE]]

PairInit ==
    /\ AnalyzeEntry
    /\ ProcIdle
    /\ TwiceIdle
    /\ LaterIdle
    /\ call = 1
    /\ other = entry_frame

\* The scheduler suspends the running call and resumes the other one.
Switch ==
    /\ call \in {1, 2}
    /\ call' = 3 - call
    /\ other' = frame
    /\ pc' = other.pc
    /\ tempo' = other.tempo
    /\ spectral_centroid' = other.spectral_centroid
    /\ zero_crossing_rate' = other.zero_crossing_rate
    /\ spectral_rolloff' = other.spectral_rolloff
    /\ spectral_bandwidth' = other.spectral_bandwidth
    /\ genre' = other.genre
    /\ major_correlations' = other.major_correlations
    /\ minor_correlations' = other.minor_correlations
    /\ key' = other.key
    /\ rms' = other.rms
    /\ sr' = other.sr
    /\ i' = other.i
    /\ segments' = other.segments
    /\ in_segment' = other.in_segment
    /\ start_time' = other.start_time
    /\ duration' = other.duration
    /\ beat_times' = other.beat_times
    /\ vocal_segments' = other.vocal_segments
    /\ result' = other.result
    /\ UNCHANGED <<procVars, twiceVars, laterVars>>

\* The files of the two calls: what the library calls of the statement just
\* run answer for them.
PairFiles ==
    CASE pc = "load" -> sr' = 2048
      [] pc = "beat_track" ->
             /\ tempo' \in {0, 125}
             /\ beat_times' = IF tempo' = 0 THEN <<>> ELSE <<0, 1024>>
      [] pc = "spectral" ->
             spectral_centroid' = 2600 /\ zero_crossing_rate' = 50
      [] pc = "estimate_genre" -> spectral_rolloff' = 3000
      [] OTHER -> TRUE

PairLoad == PairFiles /\ Load
PairGetDuration == GetDuration
PairBeatTrack == PairFiles /\ BeatTrack
PairChromaKey == ChromaKey
PairSpectral == PairFiles /\ Spectral
PairGenre == PairFiles /\ Genre
PairAssemble == Assemble

\* The statements at which the files of the two calls can make a call raise.
PairRaise ==
    /\ pc \in {"load", "estimate_genre"}
    /\ Raise
    /\ result'.error_type = "ParameterError"

\* Line 216, the call: detect_vocal_segments starts with lines 160-162.
EnterLoop ==
    /\ pc = "detect_vocal_segments"
    /\ pc' = "segment_loop"
    /\ i' = 0
    /\ segments' = loop_init.segments
    /\ in_segment' = loop_init.in_segment
    /\ start_time' = loop_init.start_time
    /\ UNCHANGED <<rms, sr, genreVars, keyVars, anVars, extVars>>

\* Line 216, the assignment of what line 187 returned.
LeaveLoop ==
    /\ pc = "segments_returned"
    /\ vocal_segments' = segments
    /\ pc' = "spectral"
    /\ UNCHANGED <<duration, beat_times, result>>
    /\ UNCHANGED <<genreVars, keyVars, segVars, extVars>>

PairNext ==
    \/ PairLoad \/ PairGetDuration \/ PairBeatTrack \/ PairChromaKey
    \/ EnterLoop \/ LoopFrame \/ CloseFinal \/ LeaveLoop
    \/ PairSpectral \/ PairGenre \/ PairAssemble \/ PairRaise \/ Switch

SpecPair == PairInit /\ [][PairNext]_vars

\* The record a call returns when it runs alone on the file that gave it
\* the library answers held in the locals f.
alone(f) ==
    [duration_seconds |-> Len(f.rms) * hop_length,
     bpm |-> f.tempo,
     key |-> estimate_key(f.major_correlations, f.minor_correlations),
     tempo |-> get_tempo_description(f.tempo),
     genre |-> estimate_genre(f.tempo, f.spectral_centroid,
                              f.zero_crossing_rate, f.spectral_rolloff,
                              f.spectral_bandwidth),
     beat_times |-> f.beat_times,
     beat_count |-> Len(f.beat_times),
     vocal_segments |-> detect_vocal_segments(f.rms, f.sr),
     vocal_segment_count |-> Len(detect_vocal_segments(f.rms, f.sr)),
     spectral_centroid |-> f.spectral_centroid,
     zero_crossing_rate |-> f.zero_crossing_rate,
     sample_rate |-> f.sr,
     success |-> TRUE]

\* A call that has returned returned what it returns alone.
Independent(f) ==
    f.pc = "returned" =>
        IF f.result.success
        THEN f.result = alone(f)
        ELSE /\ f.result.error \in {"load", "estimate_genre"}
             /\ f.result = [success |-> FALSE, error |-> f.result.error,
                            error_type |-> f.result.error_type]

\* C16: two calls of analyze_audio on different files, interleaved in any
\* order, each return the record they return when run alone.
C16_InterleavedCallsIndependent ==
    call \in {1, 2} => Independent(frame) /\ Independent(other)

\* Both calls have returned, on files with different signals, and each found
\* a segment.
C16_Witness ==
    /\ call \in {1, 2}
    /\ pc = "returned"
    /\ other.pc = "returned"
    /\ result.success
    /\ other.result.success
    /\ rms # other.rms
    /\ result.vocal_segment_count >= 1
    /\ other.result.vocal_segment_count >= 1

----------------------------------------------------------------------------
(* main, analyzer.py lines 252-268                                         *)

\* Command lines: no argument, one audio file, two arguments.
CommandLines == {<<"analyzer.py">>, <<"analyzer.py", "song.wav">>,
                 <<"analyzer.py", "song.wav", "extra">>}

\* Lines 255-258: the record printed for a wrong number of arguments.
usage_record ==
    [success |-> FALSE, error |-> "Usage: python analyzer.py <audio_file_path>"]

\* The exit code being 0 whatever the record says.
exit_code_zero(res) == 0

\* Line 268: 0 if result.get('success', False) else 1.
exit_code(res) ==
    IF (IF "success" \in DOMAIN res THEN res.success ELSE FALSE) THEN 0 ELSE 1

MainInit ==
    /\ pc = "main"
    /\ argv \in CommandLines
    /\ printed = <<>>
    /\ exit_status = Unset
    /\ AnalyzeLocals
    /\ RestIdle

\* Lines 254-259: len(sys.argv) != 2.
MainUsage ==
    /\ pc = "main"
    /\ Len(argv) # 2
    /\ printed' = Append(printed, usage_record)
    /\ exit_status' = 1
    /\ pc' = "exited"
    /\ UNCHANGED <<argv, genreVars, keyVars, segVars, anVars, restVars>>

\* Lines 261-262: analyze_audio is called on sys.argv[1].
MainCall ==
    /\ pc = "main"
    /\ Len(argv) = 2
    /\ pc' = "load"
    /\ UNCHANGED <<genreVars, keyVars, segVars, anVars, extVars>>

\* Lines 265-268: the record analyze_audio returned is printed as JSON (the
\* same fields and values) and the process exits.
MainExit ==
    /\ pc = "returned"
    /\ printed' = Append(printed, result)
    /\ exit_status' = exit_code(result)
    /\ pc' = "exited"
    /\ UNCHANGED <<argv, genreVars, keyVars, segVars, anVars, restVars>>

MainNext == MainUsage \/ MainCall \/ AnalyzeNext \/ MainExit

SpecMain == MainInit /\ [][MainNext]_vars

\* C11: the process exits with status 0 if and only if the record it
\* printed has success = true; a failure record, from the analysis or for a
\* wrong number of arguments, comes with a non-zero status.
C11_ExitZeroIffSuccess ==
    pc = "exited" =>
        /\ Len(printed) = 1
        /\ exit_status = 0 <=> printed[1].success
        /\ Len(argv) # 2 => exit_status # 0
        /\ "error" \in DOMAIN printed[1] => exit_status # 0

\* An analysis that failed has been printed and the process has exited 1.
C11_Witness ==
    /\ pc = "exited"
    /\ Len(argv) = 2
    /\ ~printed[1].success
    /\ printed[1].error = "beat_track"
    /\ exit_status = 1

\* The error taxonomy of the specification (section 7).
Taxonomy == {"DecodeFailure", "InsufficientSamples", "InvalidParameter",
             "InternalComputationError"}

C13_FailureHasKindAndMessage ==
    (pc = "exited" /\ exit_status # 0) =>
        /\ Len(printed) = 1
        /\ ~printed[1].success
        /\ {"error", "error_type"} \subseteq DOMAIN printed[1]

----------------------------------------------------------------------------
(* text_detector.py: detect_text_in_image (lines 13-56) and the script     *)
(* body (lines 58-78). Texts and the threshold argument are sequences of   *)
(* characters; an image is whether the file exists, whether opening or     *)
(* scanning it raises, and the elements the OCR reports.                   *)
(***************************************************************************)

Digits == {"0", "1", "3"}
Alnum == Digits \cup {"a", "b"}
DigitValue == ("0" :> 0) @@ ("1" :> 1) @@ ("3" :> 3)

\* Whether int(s) returns: an optional sign and at least one digit.
is_int(s) ==
    LET body == IF Len(s) >= 1 /\ s[1] = "-" THEN Tail(s) ELSE s
    IN /\ Len(body) >= 1
       /\ \A k \in 1..Len(body) : body[k] \in Digits

\* int(s) for a sequence of decimal digits.
RECURSIVE digits_value(_)
digits_value(s) ==
    IF s = <<>>
    THEN 0
    ELSE 10 * digits_value(SubSeq(s, 1, Len(s) - 1)) + DigitValue[s[Len(s)]]

\* int(s) where is_int(s).
int(s) == IF s[1] = "-" THEN 0 - digits_value(Tail(s)) ELSE digits_value(s)

\* str.strip() on blanks.
RECURSIVE strip(_)
strip(s) ==
    IF s = <<>> THEN s
    ELSE IF s[1] = " " THEN strip(Tail(s))
    ELSE IF s[Len(s)] = " " THEN strip(SubSeq(s, 1, Len(s) - 1))
    ELSE s

\* re.search(r'[a-zA-Z0-9]{2,}', text): two adjacent letters or digits.
search_alnum2(text) ==
    \E k \in 1..(Len(text) - 1) : text[k] \in Alnum /\ text[k + 1] \in Alnum

\* Lines 39-42: whether an OCR element is counted as text.
counts(element, confidence_threshold) ==
    /\ element.conf > confidence_threshold
    /\ Len(strip(element.text)) > 1
    /\ search_alnum2(strip(element.text))

\* Lines 38-44: the elements appended to detected_texts, stripped, in order.
RECURSIVE detected(_, _)
detected(data, confidence_threshold) ==
    IF data = <<>>
    THEN <<>>
    ELSE LET rest == detected(Tail(data), confidence_threshold)
         IN IF counts(Head(data), confidence_threshold)
            THEN <<[text |-> strip(Head(data).text), conf |-> Head(data).conf]>>
                   \o rest
            ELSE rest

\* Lines 24-56.
detect_text_in_image(img, image_path, confidence_threshold) ==
    IF ~img.exists
    THEN [error |-> "Image not found"]
    ELSE IF img.raises
    THEN [error |-> "cannot identify image file"]
    ELSE LET detected_texts == detected(img.data, confidence_threshold)
             text_count == Len(detected_texts)
         IN [has_text |-> text_count > 0,
             text_count |-> text_count,
             detected_text |-> IF detected_texts # <<>>
                               THEN detected_texts ELSE "None",
             image_path |-> image_path]

OcrTexts == {<<"a", "b">>, <<" ", "a", "3", " ">>, <<"a">>, <<"a", "-", "b">>}
OcrConfs == {30, 31}
OcrElements == [text : OcrTexts, conf : OcrConfs]
MaxElements == 2
Images ==
    {[exists |-> FALSE, raises |-> FALSE, data |-> <<>>],
     [exists |-> TRUE, raises |-> TRUE, data |-> <<>>]}
    \cup {[exists |-> TRUE, raises |-> FALSE, data |-> d] :
            d \in UNION {[1..n -> OcrElements] : n \in 0..MaxElements}}

TextCommandLines ==
    {<<"text_detector.py">>,
     <<"text_detector.py", "image.png">>,
     <<"text_detector.py", "image.png", <<"3", "0">>>>,
     <<"text_detector.py", "image.png", <<"3", "1">>>>,
     <<"text_detector.py", "image.png", <<"a", "b">>>>}

TextInit ==
    /\ pc = "script"
    /\ argv \in TextCommandLines
    /\ image \in Images
    /\ confidence = Unset
    /\ printed = <<>>
    /\ exit_status = Unset
    /\ GenreIdle /\ KeyIdle /\ SegIdle /\ AnIdle
    /\ TwiceIdle /\ PairIdle
    /\ StampIdle /\ KaraokeIdle /\ LastIdle

textRest == <<genreVars, keyVars, segVars, twiceVars, pairVars,
              duration, beat_times, vocal_segments, stampVars, karaokeVars,
              lastVars>>

\* Lines 59-61: no image path on the command line.
TextUsage ==
    /\ pc = "script"
    /\ Len(argv) < 2
    /\ printed' = Append(printed, "Usage")
    /\ exit_status' = 1
    /\ pc' = "exited"
    /\ UNCHANGED <<argv, image, confidence, result, textRest>>

\* Lines 63-64: the threshold is the integer given, or 30.
TextThreshold ==
    /\ pc = "script"
    /\ Len(argv) >= 2
    /\ Len(argv) > 2 => is_int(argv[3])
    /\ confidence' = IF Len(argv) > 2 THEN int(argv[3]) ELSE 30
    /\ pc' = "detect"
    /\ UNCHANGED <<argv, image, printed, exit_status, result, textRest>>

\* Line 64: int() raises ValueError, which nothing catches; the interpreter
\* prints the traceback on stderr and ends with status 1.
TextThresholdError ==
    /\ pc = "script"
    /\ Len(argv) > 2
    /\ ~is_int(argv[3])
    /\ exit_status' = 1
    /\ pc' = "exited"
    /\ UNCHANGED <<argv, image, confidence, printed, result, textRest>>

\* Line 66.
TextDetect ==
    /\ pc = "detect"
    /\ result' = detect_text_in_image(image, argv[2], confidence)
    /\ pc' = "report"
    /\ UNCHANGED <<argv, image, confidence, printed, exit_status, textRest>>

\* Lines 68-70.
TextExitError ==
    /\ pc = "report"
    /\ "error" \in DOMAIN result
    /\ printed' = Append(printed, "ERROR")
    /\ exit_status' = 2
    /\ pc' = "exited"
    /\ UNCHANGED <<argv, image, confidence, result, textRest>>

\* Lines 73-75.
TextExitDetected ==
    /\ pc = "report"
    /\ "error" \notin DOMAIN result
    /\ result.has_text
    /\ printed' = Append(printed, "TEXT_DETECTED")
    /\ exit_status' = 1
    /\ pc' = "exited"
    /\ UNCHANGED <<argv, image, confidence, result, textRest>>

\* Lines 76-78.
TextExitClean ==
    /\ pc = "report"
    /\ "error" \notin DOMAIN result
    /\ ~result.has_text
    /\ printed' = Append(printed, "NO_TEXT_DETECTED")
    /\ exit_status' = 0
    /\ pc' = "exited"
    /\ UNCHANGED <<argv, image, confidence, result, textRest>>

TextNext ==
    \/ TextUsage \/ TextThreshold \/ TextThresholdError \/ TextDetect
    \/ TextExitError \/ TextExitDetected \/ TextExitClean

SpecText == TextInit /\ [][TextNext]_vars

\* The image has been scanned: detect_text_in_image returned a scan result.
Scanned == "has_text" \in DOMAIN result

\* C17: the exit status of text_detector identifies the outcome: 0 only
\* after a scan that found no text, 1 only after a scan that found text
\* (has_text, text_count > 0), 2 on any error.
C17_ExitStatusIdentifiesOutcome ==
    pc = "exited" =>
        /\ exit_status = 0 => (Scanned /\ ~result.has_text)
        /\ exit_status = 1 =>
               (Scanned /\ result.has_text /\ result.text_count > 0)
        /\ "error" \in DOMAIN result => exit_status = 2

----------------------------------------------------------------------------
(* generate_timestamps.py: generate_word_timestamps (lines 139-166) with   *)
(* try_whisperx (lines 11-89) and use_faster_whisper (lines 91-137), one   *)
(* step per statement group. Any statement inside the try block of         *)
(* try_whisperx can raise; the file at output_json is either absent or     *)
(* holds what a method wrote, completely or up to the point of a failure.  *)
(***************************************************************************)

ModelNames == {"large-v3", "large", "turbo"}

\* Lines 156-165: model_map.get(model_name, "base").
model_map(name) ==
    CASE name = "large-v3" -> "large-v3"
      [] name = "large-v2" -> "large-v2"
      [] name = "large" -> "large-v2"
      [] name = "medium" -> "medium"
      [] name = "small" -> "small"
      [] name = "base" -> "base"
      [] name = "tiny" -> "tiny"
      [] OTHER -> "base"

\* The statement groups of the try block of try_whisperx, in order.
WhisperxSteps ==
    <<"wx_import", "wx_device", "wx_load_model", "wx_transcribe", "wx_align",
      "wx_cleanup", "wx_save", "wx_report">>

\* The statement groups of use_faster_whisper, in order.
FasterSteps == <<"fw_load", "fw_transcribe", "fw_save", "fw_report">>

Absent == [method |-> "none", complete |-> FALSE]

StampInit ==
    /\ pc = "generate_word_timestamps"
    /\ force_cpu \in BOOLEAN
    /\ model_name \in ModelNames
    /\ cuda \in BOOLEAN
    /\ faster_model = Unset
    /\ returned = Unset
    /\ attempted = <<>>
    /\ writers = <<>>
    /\ output_json = Absent
    /\ GenreIdle /\ KeyIdle /\ SegIdle /\ AnIdle
    /\ ProcIdle /\ TwiceIdle /\ PairIdle /\ TextIdle /\ KaraokeIdle
    /\ LastIdle

stampRest == <<genreVars, keyVars, segVars, anVars, procVars, twiceVars,
               pairVars, textVars, karaokeVars, lastVars>>
stampInputs == <<force_cpu, model_name, cuda>>

\* Lines 150-151: force_cpu skips WhisperX; otherwise try_whisperx is called.
Dispatch ==
    /\ pc = "generate_word_timestamps"
    /\ IF force_cpu
       THEN pc' = "model_map" /\ attempted' = attempted
       ELSE pc' = "wx_import" /\ attempted' = Append(attempted, "whisperx")
    /\ UNCHANGED <<stampInputs, faster_model, returned, writers, output_json,
                   stampRest>>

\* Falling through the return of line 152 whatever try_whisperx returned.
WhisperxReturned_no_return ==
    /\ pc = "wx_returned"
    /\ pc' = "model_map"
    /\ UNCHANGED <<stampInputs, faster_model, returned, attempted, writers,
                   output_json, stampRest>>

\* Lines 151-152: return when try_whisperx returned True.
WhisperxReturned ==
    /\ pc = "wx_returned"
    /\ pc' = IF returned = "True" THEN "done" ELSE "model_map"
    /\ UNCHANGED <<stampInputs, faster_model, returned, attempted, writers,
                   output_json, stampRest>>

\* Lines 16-25, 40-45, 49-50, 54-66 and 69-72 running to their end.
WhisperxStep ==
    /\ pc \in {"wx_import", "wx_load_model", "wx_transcribe", "wx_align",
               "wx_cleanup"}
    /\ \E k \in 1..(Len(WhisperxSteps) - 1) :
           WhisperxSteps[k] = pc /\ pc' = WhisperxSteps[k + 1]
    /\ UNCHANGED <<stampInputs, faster_model, returned, attempted, writers,
                   output_json, stampRest>>

\* Lines 27-31: without CUDA try_whisperx returns False.
WhisperxDevice ==
    /\ pc = "wx_device"
    /\ IF cuda
       THEN pc' = "wx_load_model" /\ returned' = returned
       ELSE pc' = "wx_returned" /\ returned' = "False"
    /\ UNCHANGED <<stampInputs, faster_model, attempted, writers,
                   output_json, stampRest>>

\* Lines 75-78: the result is written to output_json.
WhisperxSave ==
    /\ pc = "wx_save"
    /\ writers' = Append(writers, "whisperx")
    /\ output_json' = [method |-> "whisperx", complete |-> TRUE]
    /\ pc' = "wx_report"
    /\ UNCHANGED <<stampInputs, faster_model, returned, attempted, stampRest>>

\* Lines 80-84: the summary is printed and True returned.
WhisperxReport ==
    /\ pc = "wx_report"
    /\ returned' = "True"
    /\ pc' = "wx_returned"
    /\ UNCHANGED <<stampInputs, faster_model, attempted, writers,
                   output_json, stampRest>>

\* Lines 86-89: a statement of the try block raises, False is returned. The
\* with statement of lines 77-78 raises before the file is opened or while
\* json.dump writes to it.
WhisperxRaise ==
    /\ pc \in {WhisperxSteps[k] : k \in 1..Len(WhisperxSteps)}
    /\ pc # "wx_device"
    /\ \/ UNCHANGED <<writers, output_json>>
       \/ /\ pc = "wx_save"
          /\ writers' = Append(writers, "whisperx")
          /\ output_json' = [method |-> "whisperx", complete |-> FALSE]
    /\ returned' = "False"
    /\ pc' = "wx_returned"
    /\ UNCHANGED <<stampInputs, faster_model, attempted, stampRest>>

\* Lines 156-166: the model size is mapped and use_faster_whisper called.
ModelMap ==
    /\ pc = "model_map"
    /\ faster_model' = model_map(model_name)
    /\ attempted' = Append(attempted, "faster-whisper")
    /\ pc' = "fw_load"
    /\ UNCHANGED <<stampInputs, returned, writers, output_json, stampRest>>

\* Lines 95-98 and 100-129 running to their end.
FasterStep ==
    /\ pc \in {"fw_load", "fw_transcribe"}
    /\ pc' = IF pc = "fw_load" THEN "fw_transcribe" ELSE "fw_save"
    /\ UNCHANGED <<stampInputs, faster_model, returned, attempted, writers,
                   output_json, stampRest>>

\* Lines 132-133.
FasterSave ==
    /\ pc = "fw_save"
    /\ writers' = Append(writers, "faster-whisper")
    /\ output_json' = [method |-> "faster-whisper", complete |-> TRUE]
    /\ pc' = "fw_report"
    /\ UNCHANGED <<stampInputs, faster_model, returned, attempted, stampRest>>

\* Lines 135-137 and the return to the caller.
FasterReport ==
    /\ pc = "fw_report"
    /\ pc' = "done"
    /\ UNCHANGED <<stampInputs, faster_model, returned, attempted, writers,
                   output_json, stampRest>>

\* A statement of use_faster_whisper raises; nothing catches it before main
\* (lines 180-184).
FasterRaise ==
    /\ pc \in {FasterSteps[k] : k \in 1..Len(FasterSteps)}
    /\ \/ UNCHANGED <<writers, output_json>>
       \/ /\ pc = "fw_save"
          /\ writers' = Append(writers, "faster-whisper")
          /\ output_json' = [method |-> "faster-whisper", complete |-> FALSE]
    /\ pc' = "raised"
    /\ UNCHANGED <<stampInputs, faster_model, returned, attempted, stampRest>>

StampNext ==
    \/ Dispatch \/ WhisperxStep \/ WhisperxDevice \/ WhisperxSave
    \/ WhisperxReport \/ WhisperxRaise \/ WhisperxReturned \/ ModelMap
    \/ FasterStep \/ FasterSave \/ FasterReport \/ FasterRaise

SpecStamp == StampInit /\ [][StampNext]_vars

\* The order of the attempts: none with WhisperX when force_cpu is set,
\* WhisperX before Faster-Whisper otherwise, and Faster-Whisper only when
\* force_cpu is set or the WhisperX attempt returned False, and then always.
FallbackOrder ==
    /\ force_cpu => \A k \in 1..Len(attempted) : attempted[k] # "whisperx"
    /\ ~force_cpu =>
           attempted \in {<<>>, <<"whisperx">>,
                          <<"whisperx", "faster-whisper">>}
    /\ (\E k \in 1..Len(attempted) : attempted[k] = "faster-whisper") =>
           (force_cpu \/ returned = "False")
    /\ returned = "True" =>
           \A k \in 1..Len(attempted) : attempted[k] # "faster-whisper"
    /\ (pc \in {"done", "raised"} /\ (force_cpu \/ returned = "False")) =>
           \E k \in 1..Len(attempted) : attempted[k] = "faster-whisper"

\* C19 as stated: the fallback order holds and a successful call has its
\* output written by exactly one method.
C19_OneMethodWrites ==
    /\ FallbackOrder
    /\ pc = "done" => Cardinality({writers[k] : k \in 1..Len(writers)}) = 1

\* C19: the fallback order holds; when WhisperX returns True it is the only
\* method that wrote; a successful call leaves the complete output of the
\* method attempted last, although WhisperX may have written to the file
\* before it failed.
C19_LastMethodWrites ==
    /\ FallbackOrder
    /\ pc = "done" =>
           /\ output_json.complete
           /\ output_json.method = attempted[Len(attempted)]
           /\ writers[Len(writers)] = output_json.method
           /\ returned = "True" => writers = <<"whisperx">>

\* WhisperX failed while writing the output, Faster-Whisper wrote it again
\* and the call succeeded.
C19_Witness ==
    /\ pc = "done"
    /\ returned = "False"
    /\ writers = <<"whisperx", "faster-whisper">>
    /\ output_json = [method |-> "faster-whisper", complete |-> TRUE]

----------------------------------------------------------------------------
(* generate_karaoke_ass.py: create_karaoke_ass (lines 64-152) with         *)
(* split_text_intelligently (lines 33-62) and format_ass_time (lines       *)
(* 154-160). Texts are sequences of characters, "\n" the newline; times    *)
(* are centiseconds; an event is its start, its end and its text, the text *)
(* being the sequence of {\k<duration>}word items.                         *)
(* Two runs on the same timestamps, each with a lyrics text of its own.    *)
(***************************************************************************)

\* str.split('\n').
RECURSIVE split_lines(_)
split_lines(text) ==
    IF \A k \in 1..Len(text) : text[k] # "\n"
    THEN <<text>>
    ELSE LET k == CHOOSE j \in 1..Len(text) :
                      /\ text[j] = "\n"
                      /\ \A h \in 1..(j - 1) : text[h] # "\n"
         IN <<SubSeq(text, 1, k - 1)>>
              \o split_lines(SubSeq(text, k + 1, Len(text)))

\* Line 76: the stripped non-blank lines of a list of lines.
RECURSIVE stripped_lines(_)
stripped_lines(lines) ==
    IF lines = <<>>
    THEN <<>>
    ELSE IF strip(Head(lines)) # <<>>
         THEN <<strip(Head(lines))>> \o stripped_lines(Tail(lines))
         ELSE stripped_lines(Tail(lines))

\* The loop counting a word without the space that follows it.
RECURSIVE split_loop_no_space(_, _, _)
split_loop_no_space(words_data, max_chars, n) ==
    IF n = 0
    THEN [lines |-> <<>>, current_line |-> <<>>, current_length |-> 0]
    ELSE LET loc == split_loop_no_space(words_data, max_chars, n - 1)
             word_data == words_data[n]
             word_len == Len(strip(word_data.word))
         IN IF loc.current_length + word_len <= max_chars
               \/ loc.current_line = <<>>
            THEN [lines |-> loc.lines,
                  current_line |-> Append(loc.current_line, word_data),
                  current_length |-> loc.current_length + word_len]
            ELSE [lines |-> Append(loc.lines, loc.current_line),
                  current_line |-> <<word_data>>,
                  current_length |-> word_len]

\* Lines 45-57: the loop of split_text_intelligently after the first n words.
RECURSIVE split_loop(_, _, _)
split_loop(words_data, max_chars, n) ==
    IF n = 0
    THEN [lines |-> <<>>, current_line |-> <<>>, current_length |-> 0]
    ELSE LET loc == split_loop(words_data, max_chars, n - 1)
             word_data == words_data[n]
             word_len == Len(strip(word_data.word)) + 1
         IN IF loc.current_length + word_len <= max_chars
               \/ loc.current_line = <<>>
            THEN [lines |-> loc.lines,
                  current_line |-> Append(loc.current_line, word_data),
                  current_length |-> loc.current_length + word_len]
            ELSE [lines |-> Append(loc.lines, loc.current_line),
                  current_line |-> <<word_data>>,
                  current_length |-> word_len]

\* Lines 33-62.
split_text_intelligently(words_data, max_chars) ==
    IF words_data = <<>>
    THEN <<>>
    ELSE LET loc == split_loop(words_data, max_chars, Len(words_data))
         IN IF loc.current_line # <<>>
            THEN Append(loc.lines, loc.current_line)
            ELSE loc.lines

\* Lines 154-160, on centiseconds: hours, minutes, seconds, centiseconds.
format_ass_time(cs) ==
    <<cs \div 360000, (cs % 360000) \div 6000, (cs % 6000) \div 100, cs % 100>>

\* Lines 122-125 and 134-137: the karaoke items of a list of words.
karaoke_text(words) ==
    [k \in 1..Len(words) |->
        [k |-> words[k].end - words[k].start, word |-> strip(words[k].word)]]

\* Line 108: len(' '.join(...)) of the stripped words.
RECURSIVE total_text_len(_)
total_text_len(words) ==
    IF words = <<>>
    THEN 0
    ELSE Len(strip(Head(words).word))
           + (IF Len(words) > 1 THEN 1 ELSE 0)
           + total_text_len(Tail(words))

\* Lines 114-131: one event per line of a split segment.
line_events(line_segments) ==
    [k \in 1..Len(line_segments) |->
        [start |-> format_ass_time(line_segments[k][1].start),
         end |-> format_ass_time(
                     line_segments[k][Len(line_segments[k])].end),
         text |-> karaoke_text(line_segments[k])]]

\* Lines 100-143: the events of one segment.
segment_events(segment, max_chars_per_line) ==
    IF "words" \notin DOMAIN segment
    THEN <<>>
    ELSE IF total_text_len(segment.words) > max_chars_per_line
    THEN line_events(split_text_intelligently(segment.words,
                                              max_chars_per_line))
    ELSE <<[start |-> format_ass_time(segment.start),
            end |-> format_ass_time(segment.end),
            text |-> karaoke_text(segment.words)]>>

\* Lines 99-143: the events of the first n segments.
RECURSIVE events_of(_, _, _)
events_of(segments_data, max_chars_per_line, n) ==
    IF n = 0
    THEN <<>>
    ELSE events_of(segments_data, max_chars_per_line, n - 1)
           \o segment_events(segments_data[n], max_chars_per_line)

\* Lines 64-152: the events written to the ASS file. actual_lyrics_lines
\* (lines 74-76) and lyrics_line_idx (line 97) are assigned and never read.
create_karaoke_ass(timestamps, lyrics, cfg) ==
    LET actual_lyrics_lines ==
            IF lyrics # <<>> THEN stripped_lines(split_lines(lyrics))
            ELSE Unset
        lyrics_line_idx == 0
    IN events_of(timestamps.segments, cfg.max_chars_per_line,
                 Len(timestamps.segments))

KaraokeWords ==
    {[word |-> <<"a", "b">>, start |-> 0, end |-> 50],
     [word |-> <<" ", "c", "d", " ">>, start |-> 50, end |-> 120],
     [word |-> <<"e">>, start |-> 130, end |-> 6105]}
MaxWords == 2
MaxSegments == 1
KaraokeSegments ==
    {[start |-> 0, end |-> 6200]}
    \cup {[start |-> 0, end |-> 6200, words |-> w] :
            w \in UNION {[1..n -> KaraokeWords] : n \in 0..MaxWords}}
KaraokeData ==
    {[segments |-> d] :
        d \in UNION {[1..n -> KaraokeSegments] : n \in 1..MaxSegments}}
LyricsTexts ==
    {<<>>,
     <<"l", "a", "\n">>,
     <<"n", "a", "\n", " ", "\n", "l", "a">>}
Configs == {[max_chars_per_line |-> 45], [max_chars_per_line |-> 4]}

KaraokeInit ==
    /\ pc = "create_karaoke_ass"
    /\ timestamps_json \in KaraokeData
    /\ lyrics_text \in [1..2 -> LyricsTexts]
    /\ config \in Configs
    /\ events = [r \in 1..2 |-> <<>>]
    /\ created = {}
    /\ GenreIdle /\ KeyIdle /\ SegIdle /\ AnIdle
    /\ ProcIdle /\ TwiceIdle /\ PairIdle /\ TextIdle /\ StampIdle
    /\ LastIdle

\* One run of create_karaoke_ass on the timestamps with its lyrics text.
CreateKaraoke ==
    /\ pc = "create_karaoke_ass"
    /\ \E r \in (1..2) \ created :
           /\ events' = [events EXCEPT
                           ![r] = create_karaoke_ass(timestamps_json, lyrics_text[r],
                                                     config)]
           /\ created' = created \cup {r}
    /\ UNCHANGED <<pc, timestamps_json, lyrics_text, config>>
    /\ UNCHANGED <<genreVars, keyVars, segVars, anVars, procVars, twiceVars,
                   pairVars, textVars, stampVars, lastVars>>

KaraokeNext == CreateKaraoke

SpecKaraoke == KaraokeInit /\ [][KaraokeNext]_vars

\* The text of the events of a run, event by event.
EventTexts(r) == [k \in 1..Len(events[r]) |-> events[r][k].text]

\* C20: with lyrics_text provided the event text comes from the lyrics
\* lines: two runs on the same timestamps with different non-empty lyrics
\* texts produce different event text (where the timestamps give an event
\* with text at all).
C20_LyricsDecideEventText ==
    (/\ created = {1, 2}
     /\ lyrics_text[1] # <<>>
     /\ lyrics_text[2] # <<>>
     /\ stripped_lines(split_lines(lyrics_text[1]))
          # stripped_lines(split_lines(lyrics_text[2]))
     /\ \E k \in 1..Len(events[1]) : events[1][k].text # <<>>)
        => EventTexts(1) # EventTexts(2)

----------------------------------------------------------------------------
(* split_text_intelligently (lines 33-62) on word lists and limits of its  *)
(* own, as create_karaoke_ass calls it at line 112 and as any other caller *)
(* may.                                                                    *)
(***************************************************************************)

SplitWords ==
    KaraokeWords
    \cup {[word |-> <<"a", "b", "c", "d">>, start |-> 120, end |-> 130]}
MaxSplitWords == 3
MaxChars == 6

SplitInit ==
    /\ pc = "split_text_intelligently"
    /\ in_words \in UNION {[1..n -> SplitWords] : n \in 0..MaxSplitWords}
    /\ in_max_chars \in 0..MaxChars
    /\ out_lines = Unset
    /\ GenreIdle /\ KeyIdle /\ SegIdle /\ AnIdle
    /\ ProcIdle /\ TwiceIdle /\ PairIdle /\ TextIdle /\ StampIdle
    /\ KaraokeIdle /\ ApiIdle /\ UpdateIdle

\* Lines 33-62, called and returning.
SplitText ==
    /\ pc = "split_text_intelligently"
    /\ out_lines' = split_text_intelligently(in_words, in_max_chars)
    /\ pc' = "lines_returned"
    /\ UNCHANGED <<in_words, in_max_chars>>
    /\ UNCHANGED <<genreVars, keyVars, segVars, anVars, procVars, twiceVars,
                   pairVars, textVars, stampVars, karaokeVars, apiVars,
                   updateVars>>

SplitNext == SplitText

SpecSplit == SplitInit /\ [][SplitNext]_vars

\* The length of the stripped words of a line joined by single spaces.
RECURSIVE JoinedLen(_)
JoinedLen(line) ==
    IF line = <<>>
    THEN 0
    ELSE Len(strip(Head(line).word))
           + (IF Len(line) > 1 THEN 1 + JoinedLen(Tail(line)) ELSE 0)

\* The words of the returned lines, in order.
RECURSIVE Flatten(_)
Flatten(seqs) == IF seqs = <<>> THEN <<>> ELSE Head(seqs) \o Flatten(Tail(seqs))

----------------------------------------------------------------------------
(* whisperx_api.py: the job table (line 48), POST /transcribe (lines       *)
(* 151-192), GET /status/{job_id} (lines 194-201) and the background task  *)
(* process_transcription (lines 134-149) with run_whisperx_script (lines   *)
(* 50-116). Job id "job_N" is the number N. The handlers are coroutines    *)
(* without an await: one runs at a time on the event loop. A background    *)
(* task is a plain function, run on a worker thread: its statements        *)
(* interleave with the handlers' and with those of the other tasks.        *)
(***************************************************************************)

MaxJobs == 2

\* str.lower() on the file name suffixes used.
lower(suffix) ==
    CASE suffix = ".WAV" -> ".wav"
      [] suffix = ".Mp3" -> ".mp3"
      [] OTHER -> suffix

Suffixes == {".wav", ".WAV", ".txt"}

\* Line 163: the suffixes accepted.
audio_suffixes == {".wav", ".mp3", ".m4a", ".flac", ".ogg"}

\* What the machine does when run_whisperx_script runs: how the imports of
\* lines 55-56 end, what torch.cuda reports, whether whisper raises.
Environments ==
    {[import |-> "ImportError", cuda |-> FALSE, device_count |-> 0,
      whisper_raises |-> FALSE, segments |-> 0],
     [import |-> "OSError", cuda |-> FALSE, device_count |-> 0,
      whisper_raises |-> FALSE, segments |-> 0],
     [import |-> "ok", cuda |-> FALSE, device_count |-> 0,
      whisper_raises |-> FALSE, segments |-> 0],
     [import |-> "ok", cuda |-> TRUE, device_count |-> 1,
      whisper_raises |-> FALSE, segments |-> 0],
     [import |-> "ok", cuda |-> TRUE, device_count |-> 2,
      whisper_raises |-> TRUE, segments |-> 0],
     [import |-> "ok", cuda |-> TRUE, device_count |-> 2,
      whisper_raises |-> FALSE, segments |-> 2]}

\* Lines 50-116: what the call returns, or the exception it lets through
\* (lines 57-58 catch ImportError only).
run_whisperx_script(env) ==
    IF env.import = "ImportError"
    THEN [returns |-> [error |-> "Failed to import required packages"]]
    ELSE IF env.import # "ok"
    THEN [raises |-> env.import]
    ELSE IF ~env.cuda
    THEN [returns |-> [error |-> "CUDA not available"]]
    ELSE IF env.device_count < 2
    THEN [returns |-> [error |-> "GPU 1 not available"]]
    ELSE IF env.whisper_raises
    THEN [returns |-> [error |-> "str(e)"]]
    ELSE [returns |-> [transcription |-> "text",
                       srt |-> [k \in 1..env.segments |-> k],
                       vtt |-> [k \in 1..env.segments |-> k],
                       json_data |-> [segments |-> env.segments]]]

\* jobs[job_id] = entry.
put(table, job_id, entry) ==
    [k \in DOMAIN table \cup {job_id} |->
        IF k = job_id THEN entry ELSE table[k]]

\* Line 179 with the id taken from the jobs still being processed.
new_job_id_pending(table) ==
    Cardinality({k \in DOMAIN table : table[k].status = "processing"}) + 1

\* Line 179: job_id = f"job_{len(jobs) + 1}".
new_job_id(table) == Cardinality(DOMAIN table) + 1

Idle == [pc |-> "idle", job_id |-> 0]

ApiInit ==
    /\ pc = "serving"
    /\ jobs = <<>>
    /\ handler = Idle
    /\ tasks = <<>>
    /\ issued = <<>>
    /\ reply = [code |-> 0]
    /\ GenreIdle /\ KeyIdle /\ SegIdle /\ AnIdle
    /\ ProcIdle /\ TwiceIdle /\ PairIdle /\ TextIdle /\ StampIdle
    /\ KaraokeIdle /\ SplitIdle /\ UpdateIdle

apiRest == <<pc, genreVars, keyVars, segVars, anVars, procVars, twiceVars,
             pairVars, textVars, stampVars, karaokeVars, splitVars,
             updateVars>>

\* Lines 163-164: a file that is no audio file is answered 400.
TranscribeRejected ==
    /\ handler.pc = "idle"
    /\ \E suffix \in Suffixes : lower(suffix) \notin audio_suffixes
    /\ reply' = [code |-> 400]
    /\ UNCHANGED <<jobs, handler, tasks, issued, apiRest>>

\* Lines 163-176: the upload is accepted and saved.
TranscribeSave ==
    /\ handler.pc = "idle"
    /\ Len(tasks) < MaxJobs
    /\ \E suffix \in Suffixes : lower(suffix) \in audio_suffixes
    /\ handler' = [pc |-> "generate_id", job_id |-> 0]
    /\ UNCHANGED <<jobs, tasks, issued, reply, apiRest>>

\* Line 179.
TranscribeGenerateId ==
    /\ handler.pc = "generate_id"
    /\ handler' = [pc |-> "start", job_id |-> new_job_id(jobs)]
    /\ UNCHANGED <<jobs, tasks, issued, reply, apiRest>>

\* Lines 182-192: the entry is inserted, the task added, the id answered.
TranscribeStart ==
    /\ handler.pc = "start"
    /\ jobs' = put(jobs, handler.job_id, [status |-> "processing"])
    /\ tasks' = Append(tasks, [job_id |-> handler.job_id, pc |-> "queued",
                               temp_file |-> TRUE])
    /\ issued' = Append(issued, handler.job_id)
    /\ reply' = [code |-> 200, status |-> "accepted",
                 job_id |-> handler.job_id]
    /\ handler' = Idle
    /\ UNCHANGED apiRest

\* Lines 194-201; the reply is kept with the id that was asked for.
GetStatus ==
    /\ handler.pc = "idle"
    /\ \E job_id \in 1..(MaxJobs + 1) :
           reply' = IF job_id \notin DOMAIN jobs
                    THEN [code |-> 404, request |-> job_id]
                    ELSE [code |-> 200, request |-> job_id,
                          body |-> jobs[job_id]]
    /\ UNCHANGED <<jobs, handler, tasks, issued, apiRest>>

\* Line 138: the call of run_whisperx_script returns or raises.
TaskRun ==
    \E t \in 1..Len(tasks) :
        /\ tasks[t].pc = "queued"
        /\ \E env \in Environments :
               LET outcome == run_whisperx_script(env)
               IN tasks' = [tasks EXCEPT ![t] =
                     IF "returns" \in DOMAIN outcome
                     THEN [job_id |-> tasks[t].job_id, pc |-> "returned",
                           temp_file |-> TRUE, result |-> outcome.returns]
                     ELSE [job_id |-> tasks[t].job_id, pc |-> "raised",
                           temp_file |-> TRUE, e |-> outcome.raises]]
        /\ UNCHANGED <<jobs, handler, issued, reply, apiRest>>

\* Line 139: jobs[job_id] = {"status": "completed", "result": result}.
TaskCompleted ==
    \E t \in 1..Len(tasks) :
        /\ tasks[t].pc = "returned"
        /\ jobs' = put(jobs, tasks[t].job_id,
                       [status |-> "completed", result |-> tasks[t].result])
        /\ tasks' = [tasks EXCEPT ![t].pc = "cleanup"]
        /\ UNCHANGED <<handler, issued, reply, apiRest>>

\* Lines 140-141 with the exception swallowed and nothing recorded.
TaskFailed_unrecorded ==
    \E t \in 1..Len(tasks) :
        /\ tasks[t].pc = "raised"
        /\ tasks' = [tasks EXCEPT ![t].pc = "cleanup"]
        /\ UNCHANGED <<jobs, handler, issued, reply, apiRest>>

\* Lines 140-141: jobs[job_id] = {"status": "failed", "error": str(e)}.
TaskFailed ==
    \E t \in 1..Len(tasks) :
        /\ tasks[t].pc = "raised"
        /\ jobs' = put(jobs, tasks[t].job_id,
                       [status |-> "failed", error |-> tasks[t].e])
        /\ tasks' = [tasks EXCEPT ![t].pc = "cleanup"]
        /\ UNCHANGED <<handler, issued, reply, apiRest>>

\* Lines 142-149: the temporary file is removed.
TaskCleanup ==
    \E t \in 1..Len(tasks) :
        /\ tasks[t].pc = "cleanup"
        /\ tasks' = [tasks EXCEPT ![t].pc = "done", ![t].temp_file = FALSE]
        /\ UNCHANGED <<jobs, handler, issued, reply, apiRest>>

ApiNext ==
    \/ TranscribeRejected \/ TranscribeSave \/ TranscribeGenerateId
    \/ TranscribeStart \/ GetStatus
    \/ TaskRun \/ TaskCompleted \/ TaskFailed \/ TaskCleanup

SpecApi == ApiInit /\ [][ApiNext]_vars

\* The transcription of a task failed: run_whisperx_script raised, or it
\* returned an error instead of a transcription.
TranscriptionFailed(t) ==
    IF "result" \in DOMAIN tasks[t]
    THEN "error" \in DOMAIN tasks[t].result
    ELSE "e" \in DOMAIN tasks[t]

\* C22: when the transcription of a job fails, the job's entry ends with
\* status "failed" and an error message.
C22_FailureEndsFailed ==
    \A t \in 1..Len(tasks) :
        (tasks[t].pc = "done" /\ TranscriptionFailed(t)) =>
            /\ jobs[tasks[t].job_id].status = "failed"
            /\ "error" \in DOMAIN jobs[tasks[t].job_id]

\* C25: the job ids issued by POST /transcribe are unique: whatever the
\* interleaving of submissions and background completions, a submission is
\* never given an id already in the job table, the table only grows, and
\* the insertion of a new job leaves every other job's entry as it was.
C25_JobIdsUnique ==
    /\ [](\A a, b \in 1..Len(issued) : a # b => issued[a] # issued[b])
    /\ [][/\ DOMAIN jobs \subseteq DOMAIN jobs'
          /\ Len(issued') > Len(issued) =>
                 LET job_id == issued'[Len(issued')]
                 IN /\ job_id \notin DOMAIN jobs
                    /\ DOMAIN jobs' = DOMAIN jobs \cup {job_id}
                    /\ \A k \in DOMAIN jobs : jobs'[k] = jobs[k]]_vars

\* A second job was submitted after the task of the first had recorded its
\* outcome; the first job's entry still holds that outcome.
C25_Witness ==
    /\ issued = <<1, 2>>
    /\ DOMAIN jobs = {1, 2}
    /\ jobs[1].status = "completed"
    /\ jobs[2].status = "processing"
    /\ tasks[2].pc = "queued"

\* The background tasks are run by the server once the response of their
\* submission is sent (line 183), each on a worker thread that runs to its
\* end: a task that can take its next step eventually takes it.
SpecApiLive ==
    /\ ApiInit
    /\ [][ApiNext]_vars
    /\ WF_vars(TaskRun)
    /\ WF_vars(TaskCompleted)
    /\ WF_vars(TaskFailed)
    /\ WF_vars(TaskCleanup)

Final == {"completed", "failed"}

\* Job k is not in the table yet, or its status is final. An entry stays in
\* the table and a final status stays final, so that a job in the table is
\* settled again and again exactly when it eventually reaches a final
\* status.
Settled(k) == IF k \in DOMAIN jobs THEN jobs[k].status \in Final ELSE TRUE

\* C26: every job accepted by POST /transcribe is in the job table with
\* status "processing" from the moment it is accepted, eventually reaches
\* status "completed" or "failed", and never returns to "processing"
\* afterwards; GET /status for an id that was never issued answers 404 and
\* leaves the table as it was.
C26_JobLifecycle ==
    /\ [](\A a \in 1..Len(issued) : issued[a] \in DOMAIN jobs)
    /\ [][/\ Len(issued') > Len(issued) =>
                 /\ jobs'[issued'[Len(issued')]] = [status |-> "processing"]
                 /\ reply'.code = 200
                 /\ reply'.job_id = issued'[Len(issued')]
          /\ DOMAIN jobs \subseteq DOMAIN jobs'
          /\ \A k \in DOMAIN jobs :
                 jobs[k].status \in Final => jobs'[k].status \in Final
          /\ (reply' # reply /\ "request" \in DOMAIN reply') =>
                 /\ jobs' = jobs
                 /\ (\A a \in 1..Len(issued) :
                        issued[a] # reply'.request) => reply'.code = 404]_vars
    /\ \A k \in 1..MaxJobs : []<>Settled(k)

\* The first job ended failed and a question for an id never issued was
\* answered 404.
C26_Witness ==
    /\ issued = <<1>>
    /\ jobs[1].status = "failed"
    /\ tasks[1].pc = "done"
    /\ reply = [code |-> 404, request |-> 2]

----------------------------------------------------------------------------
(* update_audio_analysis.py: analyze_audio_file (lines 16-31),             *)
(* update_song_analysis (lines 33-58) and main (lines 60-121). The songs   *)
(* table maps a song id to its row; the analyzer is the process of         *)
(* analyzer.py, seen by its exit status and what it printed.               *)
(***************************************************************************)

MaxSongs == 3

\* Python's None, and the empty dict, both false in a condition.
None == <<>>

\* dict.get(name), as a condition: false when the key is missing.
get(dict, name) == IF name \in DOMAIN dict THEN dict[name] ELSE FALSE

\* music_stem_path values: NULL, the path of a file that is gone, the path
\* of a file that exists.
StemPaths == {"", "gone.wav", "song.wav"}

\* os.path.exists(path).
exists(path) == path = "song.wav"

\* What the analyzer process can leave: its exit status and its stdout,
\* which is JSON text of a record or no JSON at all.
AnalyzerRuns ==
    {[returncode |-> 0, json |-> TRUE,
      stdout |-> [success |-> TRUE, duration_seconds |-> 4096, bpm |-> 120,
                  key |-> "C Major", tempo |-> "Fast", genre |-> "Dance"]],
     [returncode |-> 0, json |-> TRUE,
      stdout |-> [success |-> TRUE, duration_seconds |-> 1536, bpm |-> 0,
                  key |-> "A Minor", tempo |-> "Very Slow",
                  genre |-> "Ambient"]],
     [returncode |-> 0, json |-> TRUE,
      stdout |-> [success |-> FALSE, error |-> "load",
                  error_type |-> "FileNotFoundError"]],
     [returncode |-> 0, json |-> TRUE, stdout |-> None],
     [returncode |-> 0, json |-> FALSE, stdout |-> None],
     [returncode |-> 1, json |-> TRUE,
      stdout |-> [success |-> FALSE, error |-> "load",
                  error_type |-> "FileNotFoundError"]],
     [returncode |-> 1, json |-> FALSE, stdout |-> None]}

\* Lines 16-31: None on a non-zero exit (check=True) and on output that is
\* no JSON, the parsed output otherwise.
analyze_audio_file(process) ==
    IF process.returncode # 0
    THEN None
    ELSE IF ~process.json
    THEN None
    ELSE process.stdout

\* The UPDATE of lines 40-55 with key and tempo in each other's place.
update_song_analysis_swapped(conn, song_id, an) ==
    IF an = None \/ get(an, "success") # TRUE
    THEN [returns |-> FALSE, conn |-> conn]
    ELSE [returns |-> TRUE,
          conn |-> [conn EXCEPT ![song_id] =
                      [music_stem_path |-> conn[song_id].music_stem_path,
                       duration_seconds |-> an.duration_seconds,
                       bpm |-> an.bpm,
                       key |-> an.tempo,
                       tempo |-> an.key]]]

\* Lines 33-58: what is returned and the table afterwards.
update_song_analysis(conn, song_id, an) ==
    IF an = None \/ get(an, "success") # TRUE
    THEN [returns |-> FALSE, conn |-> conn]
    ELSE [returns |-> TRUE,
          conn |-> [conn EXCEPT ![song_id] =
                      [music_stem_path |-> conn[song_id].music_stem_path,
                       duration_seconds |-> an.duration_seconds,
                       bpm |-> an.bpm,
                       key |-> an.key,
                       tempo |-> an.tempo]]]

UpdateInit ==
    /\ pc = "connect"
    /\ db \in UNION {[1..n -> [music_stem_path : StemPaths,
                               duration_seconds : {0}, bpm : {0},
                               key : {"N/A"}, tempo : {"N/A"}]] :
                       n \in 0..MaxSongs}
    /\ songs = <<>>
    /\ song_i = 0
    /\ analysis = None
    /\ success_count = 0
    /\ fail_count = 0
    /\ GenreIdle /\ KeyIdle /\ SegIdle /\ AnIdle
    /\ ProcIdle /\ TwiceIdle /\ PairIdle /\ TextIdle /\ StampIdle
    /\ KaraokeIdle /\ SplitIdle /\ ApiIdle

updateRest == <<genreVars, keyVars, segVars, anVars, procVars, twiceVars,
                pairVars, textVars, stampVars, karaokeVars, splitVars,
                apiVars>>

\* Lines 65-84: the rows are fetched in the order of their ids.
FetchSongs ==
    /\ pc = "connect"
    /\ songs' = [k \in 1..Len(db) |->
                    [song_id |-> k,
                     music_stem_path |-> db[k].music_stem_path]]
    /\ pc' = IF Len(db) = 0 THEN "returned" ELSE "loop"
    /\ UNCHANGED <<db, song_i, analysis, success_count, fail_count,
                   updateRest>>

\* Lines 91-94: no path, or no file at the path.
AudioFileNotFound ==
    /\ pc = "loop"
    /\ song_i < Len(songs)
    /\ LET music_stem_path == songs[song_i + 1].music_stem_path
       IN music_stem_path = "" \/ ~exists(music_stem_path)
    /\ fail_count' = fail_count + 1
    /\ song_i' = song_i + 1
    /\ UNCHANGED <<pc, db, songs, analysis, success_count, updateRest>>

\* Lines 97-98: the analyzer is run on the file.
AnalyzeSong ==
    /\ pc = "loop"
    /\ song_i < Len(songs)
    /\ LET music_stem_path == songs[song_i + 1].music_stem_path
       IN music_stem_path # "" /\ exists(music_stem_path)
    /\ \E process \in AnalyzerRuns :
           analysis' = analyze_audio_file(process)
    /\ pc' = "analysed"
    /\ UNCHANGED <<db, songs, song_i, success_count, fail_count, updateRest>>

\* Lines 100-107: the analysis succeeded and the row is updated.
UpdateSong ==
    /\ pc = "analysed"
    /\ analysis # None
    /\ get(analysis, "success") = TRUE
    /\ LET updated == update_song_analysis(db, songs[song_i + 1].song_id,
                                           analysis)
       IN /\ db' = updated.conn
          /\ IF updated.returns
             THEN success_count' = success_count + 1
                  /\ fail_count' = fail_count
             ELSE fail_count' = fail_count + 1
                  /\ success_count' = success_count
    /\ song_i' = song_i + 1
    /\ pc' = "loop"
    /\ UNCHANGED <<songs, analysis, updateRest>>

\* Lines 108-111: no analysis, or one that reports no success.
AnalysisFailed ==
    /\ pc = "analysed"
    /\ ~(analysis # None /\ get(analysis, "success") = TRUE)
    /\ fail_count' = fail_count + 1
    /\ song_i' = song_i + 1
    /\ pc' = "loop"
    /\ UNCHANGED <<db, songs, analysis, success_count, updateRest>>

\* Lines 115-121: the loop is over, the totals are printed.
CloseUpdate ==
    /\ pc = "loop"
    /\ song_i = Len(songs)
    /\ pc' = "returned"
    /\ UNCHANGED <<db, songs, song_i, analysis, success_count, fail_count,
                   updateRest>>

UpdateNext ==
    \/ FetchSongs \/ AudioFileNotFound \/ AnalyzeSong \/ UpdateSong
    \/ AnalysisFailed \/ CloseUpdate

SpecUpdate == UpdateInit /\ [][UpdateNext]_vars

\* The row of a song after its update from an analysis.
UpdatedRow(row, an) ==
    [music_stem_path |-> row.music_stem_path,
     duration_seconds |-> an.duration_seconds,
     bpm |-> an.bpm, key |-> an.key, tempo |-> an.tempo]

\* C23: each song processed ends in exactly one of two outcomes: its row
\* is updated with the analysis's duration_seconds, bpm, key and tempo and
\* success_count is incremented, only when the analyzer reported
\* success=true; or its row is unchanged and fail_count is incremented.
\* The other rows are never touched, and the two counts add up to the
\* number of songs processed, after the loop the number of songs.
C23_UpdatedOrCountedFailed ==
    /\ [](/\ success_count + fail_count = song_i
          /\ pc = "returned" => song_i = Len(songs) /\ Len(songs) = Len(db))
    /\ [][IF song_i' = song_i
          THEN /\ success_count' = success_count
               /\ fail_count' = fail_count
               /\ db' = db
          ELSE /\ song_i' = song_i + 1
               /\ \A k \in DOMAIN db : k # song_i + 1 => db'[k] = db[k]
               /\ \/ /\ success_count' = success_count + 1
                     /\ fail_count' = fail_count
                     /\ pc = "analysed"
                     /\ analysis # None
                     /\ get(analysis, "success") = TRUE
                     /\ db'[song_i + 1] = UpdatedRow(db[song_i + 1], analysis)
                  \/ /\ fail_count' = fail_count + 1
                     /\ success_count' = success_count
                     /\ db' = db
         ]_vars

\* Two songs were processed: the first one was updated from an analysis
\* that reported 120 BPM, the second one failed and kept its row.
C23_Witness ==
    /\ pc = "returned"
    /\ Len(songs) = 2
    /\ success_count = 1
    /\ fail_count = 1
    /\ db[1].bpm = 120
    /\ db[1].key = "C Major"
    /\ db[2].key = "N/A"

====
